---------------------------- MODULE Spec2Model ----------------------------
(***************************************************************************)
(* AirSig: the drawing engine (canvas, undo/redo stacks, compositing) and  *)
(* the gesture recogniser of src/utils.py, as state machines.              *)
(*                                                                         *)
(* A canvas is a function from pixel coordinates <<x, y>> to BGR triples.  *)
(* The model canvas is a small grid; the painting primitives of OpenCV     *)
(* (cv2.line, cv2.circle) are modelled by the ideal shapes they rasterise  *)
(* (anti-aliased edge blending is not modelled).                           *)
(***************************************************************************)
EXTENDS Integers, Sequences, FiniteSets, TLC

VARIABLES
    canvas,          \* DrawingEngine.canvas
    undo_stack,      \* DrawingEngine.undo_stack (deque, maxlen 20)
    redo_stack,      \* DrawingEngine.redo_stack (deque, maxlen 20)
    call,            \* name of the last DrawingEngine method called
    ret,             \* value returned by that call
    paints,          \* number of draw_line / erase calls made so far
    saves,           \* number of counted save_state / clear calls so far
    pt_missing,      \* whether the last draw_line / erase call got None for
                     \* a point it needs
    frame_in,        \* frame passed to the last overlay_on_frame call
    frame_out,       \* frame returned by the last overlay_on_frame call
    pc,              \* position of the stroke scenario (SpecStrokes)
    strokes,         \* scenario: strokes started (save_state calls)
    undos,           \* scenario: undo() calls made
    redos,           \* scenario: redo() calls made
    saved_canvas,    \* scenario: canvas content at the latest save_state()
    final_canvas,    \* scenario: canvas content before the first undo()
    cleared_canvas,  \* scenario: canvas content before clear()
    segments,        \* scenario: draw_line / erase calls in the current stroke
    gesture_history, \* GestureRecognizer.gesture_history (deque, maxlen 5)
    current_gesture, \* GestureRecognizer.current_gesture
    landmarks,       \* landmark list passed to the last recognize() call
    rec_ret,         \* (gesture, confidence) returned by that call
    frames_seen,     \* number of counted recognize() calls so far
    set_order,       \* iteration orders of the sets of labels built so far
                     \* in this interpreter process
    same_process,    \* whether the second recogniser lives in this process
    set_order2,      \* the iteration orders of the second recogniser's
                     \* process, when that is another one
    feed,            \* landmark lists passed to the first recogniser
    out1,            \* labels the first recogniser returned for them
    rec2,            \* a second GestureRecognizer instance
    out2,            \* labels the second recogniser returned so far
    euro,            \* a OneEuroFilter
    euro_out,        \* value returned by its last call
    euro_dt,         \* dt that call computed with
    euro_calls,      \* number of calls made on it
    step_input,      \* the constant a step input feeds it after the first
                     \* call
    step_prev,       \* the value it returned before the last call
    smoothers,       \* AirSigGUI.smoothers: hand index -> PointSmoother
    sm_call,         \* name of the last PointSmoother method called
    sm_arg,          \* point passed to the last smooth() call
    sm_ret,          \* value returned by the last smooth() call
    sm_log,          \* (point, result) of the smooth() calls made so far
    sm_calls,        \* number of smooth() calls made so far
    heap,            \* the pixel buffers (numpy arrays) alive: id -> content
    canvas_ref,      \* id of the buffer DrawingEngine.canvas refers to
    undo_refs,       \* ids of the buffers on DrawingEngine.undo_stack
    redo_refs,       \* ids of the buffers on DrawingEngine.redo_stack
    held,            \* ids of the buffers get_canvas() returned to callers,
                     \* in the order of the calls
    gui,             \* AirSigGUI's own fields that process_gestures uses
    hands_data,      \* hands_data passed to the last process_gestures call
    pinch_run,       \* consecutive process_gestures calls, up to the last
                     \* one, whose single hand was labelled "pinch"
    run_advances,    \* advances of current_color_index in those calls
    line_args,       \* (pt1, pt2, thickness) of a draw_line call on a blank
                     \* canvas
    line_canvas,     \* the canvas after that call
    load_arg,        \* what a load_project() call unpickled
    load_ret,        \* the message box that call showed
    load_pre,        \* the canvas and the GUI's fields before that call
    watch,           \* what the dispatcher did in the last frame and in
                     \* the run of frames it belongs to
    app,             \* AirSigGUI's fields the two threads share, and where
                     \* each thread is
    recorder,        \* AirSigGUI's recording fields and the scheduled
                     \* toggle_recording callbacks
    race,            \* where the two threads are inside the engine's
                     \* save_state(), undo() and redo()
    cam              \* the camera's flags, every process_video thread
                     \* start_camera() made and where the main thread is
                     \* inside stop_camera() and switch_camera()

engine_vars   == <<canvas, undo_stack, redo_stack, call, ret>>
overlay_vars  == <<frame_in, frame_out>>
scenario_vars == <<pc, strokes, undos, redos, saved_canvas, final_canvas,
                   cleared_canvas, segments>>
budget_vars   == <<paints, saves, pt_missing>>
recognizer_vars == <<gesture_history, current_gesture, landmarks, rec_ret,
                     frames_seen>>
\* str hashing of the interpreter process, as far as the model observes it
process_vars == <<set_order, same_process, set_order2>>
\* two recognisers fed the same landmark lists
pair_vars == <<feed, out1, rec2, out2>>
\* everything outside the drawing engine and its callers' bookkeeping
filter_vars == <<euro, euro_out, euro_dt, euro_calls, step_input, step_prev>>
smoother_vars == <<smoothers, sm_call, sm_arg, sm_ret, sm_log, sm_calls>>
\* the engine's buffers as objects
ref_vars == <<heap, canvas_ref, undo_refs, redo_refs, held>>
\* the gesture dispatcher's fields, its last input and what it did during
\* the pinch in progress
gui_vars == <<gui, hands_data, pinch_run, run_advances>>
\* a draw_line call looked at on its own
line_vars == <<line_args, line_canvas>>
\* the parts of the program modelled apart from the engine's callers
thread_vars == <<app, recorder, race, cam>>
\* a load_project() call looked at on its own
load_vars == <<load_arg, load_ret, load_pre>>
\* calls looked at on their own, and the dispatcher's frames
side_vars == <<line_vars, load_vars, watch>>
apart_vars == <<side_vars, thread_vars>>
rest_vars == <<recognizer_vars, process_vars, pair_vars, filter_vars,
               smoother_vars, ref_vars, gui_vars, apart_vars>>
vars == <<engine_vars, budget_vars, overlay_vars, scenario_vars, rest_vars>>

---------------------------------------------------------------------------
(* Bounds of the model *)

Width      == 2      \* canvas width of the model engine (one row of pixels)
MaxPaints  == 2      \* draw_line / erase calls in one run
MaxSaves   == 2      \* save_state / clear calls in one run of Spec
MaxStrokes == 3      \* strokes in one run of the stroke scenario
MaxFrames  == 2      \* recognize() calls in one run of SpecClassify
MaxSegments == 2     \* draw_line / erase calls in one stroke of the scenario
MaxFeed    == 6      \* landmark lists fed to a recogniser in one run of SpecVote
MaxPairFeed == 4     \* landmark lists fed to two recognisers in one run
MaxFilterCalls == 3  \* calls of one OneEuroFilter in one run
MaxStep    == 3  \* calls that feed the constant of a step input
LineGrid   == 5  \* largest coordinate of the canvas a single line is drawn on
MaxSmooth  == 3      \* smooth() calls in one run of SpecSmooth
MaxHeld    == 1      \* buffers callers hold from get_canvas() at a time
MaxHold    == 10     \* frames a pinch is followed for
MaxEvents  == 2      \* start, clear, undo and redo button presses in one run
MaxIter    == 2      \* frames the camera delivers in one run
MaxAfter   == 2      \* toggle_recording callbacks scheduled at a time
MaxDispatch == 4     \* frames dispatched in one run of SpecStroke or SpecHands
MaxTwin    == 2      \* frames with two hands in one run of SpecTwin
MaxCalls == 3      \* start_camera, stop_camera and switch_camera calls in one run
MaxLoops == 2      \* passes of process_video's loop, over all its threads
MaxPress   == 2      \* presses of the shape and undo buttons
ToolGrid   == 5      \* the shape tool's canvas: pixels 0 .. ToolGrid each way

(* Program constants *)

MaxStates  == 20     \* deque(maxlen=20) of the undo and redo stacks
HistoryLen == 5      \* deque(maxlen=5) of the gesture history
PinchDist  == 40     \* thumb_index_dist < 40
NumLandmarks == 21   \* len(landmarks) < 21
Threshold  == 50     \* cv2.threshold(gray, 50, ...)
MaxVal     == 255    \* cv2.threshold(..., 255, ...), uint8 maximum
RecordingCap == 18000  \* len(self.recorded_frames) < 18000

(* Representation of time and of floating-point values *)

Scale          == 1000   \* fixed-point units per pixel, per Hz and per 1.0
TicksPerSecond == 2000   \* clock ticks per second of time.time()

\* Python's None, for an absent point, canvas or frame and for "no return value"
None == <<>>
\* a returned Python value v
Returned(v) == <<v>>
\* a field that holds the number v and not None, and its number
Some(v) == <<v>>
Val(o) == o[1]

---------------------------------------------------------------------------
(* Colours (BGR triples) *)

White == <<255, 255, 255>>
Black == <<0, 0, 0>>
Red   == <<0, 0, 255>>
Blue  == <<255, 0, 0>>

Pixels == {<<x, 0>> : x \in 0 .. Width - 1}

\* np.full((height, width, 3), 255, dtype='uint8')
BlankCanvas == [p \in Pixels |-> White]

---------------------------------------------------------------------------
(* collections.deque(maxlen=n) *)

Last(s)  == s[Len(s)]
Front(s) == SubSeq(s, 1, Len(s) - 1)
Range(s) == {s[i] : i \in 1 .. Len(s)}

\* deque.append on a bounded deque: a full deque drops its oldest element
deque_append(q, x, maxlen) ==
    IF Len(q) >= maxlen THEN Append(Tail(q), x) ELSE Append(q, x)

---------------------------------------------------------------------------
(* OneEuroFilter. Floats are fixed-point numbers: positions, smoothing     *)
(* factors (alpha, beta) and cut-off frequencies count thousandths,        *)
(* derivatives are whole pixels per second, timestamps are clock ticks.    *)

Abs(a) == IF a < 0 THEN -a ELSE a

\* int(a / n) for n > 0: Python's int() truncates towards zero
TruncDiv(a, n) == IF a >= 0 THEN a \div n ELSE -((-a) \div n)

\* dt = 0.001
EpsilonTicks == TicksPerSecond \div 1000

\* 1 / (2 * pi), as cut-off units times ticks (pi = 355 / 113)
TauTicks == (Scale * TicksPerSecond * 113) \div 710

\* OneEuroFilter.__init__
OneEuroFilter_init(min_cutoff, beta, d_cutoff) ==
    [min_cutoff |-> min_cutoff, beta |-> beta, d_cutoff |-> d_cutoff,
     x_prev |-> None, dx_prev |-> 0, t_prev |-> None]

\* tau = 1 / (2 pi cutoff); alpha = 1 / (1 + tau / dt)
\*                                 = cutoff dt / (cutoff dt + 1 / (2 pi))
_alpha(dt, cutoff) == (Scale * cutoff * dt) \div (cutoff * dt + TauTicks)

\* a / n for n > 0 as a float operation returns it: the nearest
\* representable number, the even one of two equally near
RoundDiv(a, n) ==
    \* v is the value of a, taken once
    CHOOSE rounded \in
        {IF 2 * (v % n) < n THEN v \div n
         ELSE IF 2 * (v % n) > n THEN v \div n + 1
         ELSE IF (v \div n) % 2 = 0 THEN v \div n ELSE v \div n + 1 :
            v \in {a}} : TRUE

\* exponential smoothing that extrapolates past x
_smooth_extrapolates(x, x_prev, alpha) ==
    CHOOSE result \in
        {RoundDiv((Scale + a) * v, Scale) - RoundDiv(a * p, Scale) :
            a \in {alpha}, v \in {x}, p \in {x_prev}} : TRUE

\* alpha * x + (1 - alpha) * x_prev: two products, each rounded, and
\* their sum
_smooth(x, x_prev, alpha) ==
    \* a, v and p are the values of alpha, x and x_prev, each taken once
    CHOOSE result \in
        {RoundDiv(a * v, Scale) + RoundDiv((Scale - a) * p, Scale) :
            a \in {alpha}, v \in {x}, p \in {x_prev}} : TRUE

\* dt of a call at time t after a call at time t_prev, clamped from below
max_dt(t, t_prev) ==
    IF t - t_prev < EpsilonTicks THEN EpsilonTicks ELSE t - t_prev

\* dt of a call at time t after a call at time t_prev
filter_dt(t, t_prev) ==
    IF t - t_prev <= 0 THEN EpsilonTicks ELSE t - t_prev

\* OneEuroFilter.__call__(x, t): the filter after the call, the value it
\* returns and the dt it computed with (None on the first call)
OneEuroFilter_call(f, x, t) ==
    IF f.x_prev = None
    THEN [f |-> [f EXCEPT !.x_prev = Some(x), !.t_prev = Some(t)],
          out |-> x, dt |-> None]
    ELSE LET dt  == filter_dt(t, Val(f.t_prev))
             dx  == TruncDiv((x - Val(f.x_prev)) * TicksPerSecond,
                             dt * Scale)
             edx == _smooth(dx, f.dx_prev, _alpha(dt, f.d_cutoff))
             cutoff == f.min_cutoff + f.beta * Abs(edx)
             x_filtered == _smooth(x, Val(f.x_prev), _alpha(dt, cutoff))
         IN  [f |-> [f EXCEPT !.x_prev = Some(x_filtered), !.dx_prev = edx,
                              !.t_prev = Some(t)],
              out |-> x_filtered, dt |-> Some(dt)]

---------------------------------------------------------------------------
(* PointSmoother *)

\* PointSmoother.__init__(jitter_threshold=..., stabilization=...)
PointSmoother_init(jitter_threshold, stabilization) ==
    LET min_cutoff == CASE stabilization = "low"    -> Scale
                        [] stabilization = "medium" -> Scale \div 2
                        [] OTHER                    -> (3 * Scale) \div 10
        beta       == CASE stabilization = "low"    -> Scale \div 100
                        [] stabilization = "medium" -> (5 * Scale) \div 1000
                        [] OTHER                    -> (3 * Scale) \div 1000
        window     == CASE stabilization = "low"    -> 2
                        [] stabilization = "medium" -> 3
                        [] OTHER                    -> 5
    IN  [window_size |-> window,
         jitter_threshold |-> jitter_threshold,
         stabilization |-> stabilization,
         filter_x |-> OneEuroFilter_init(min_cutoff, beta, Scale),
         filter_y |-> OneEuroFilter_init(min_cutoff, beta, Scale),
         point_history |-> <<>>,
         last_stable_point |-> None,
         ret |-> None]

RECURSIVE SumX(_), SumY(_)
SumX(h) == IF h = <<>> THEN 0 ELSE h[1][1] + SumX(Tail(h))
SumY(h) == IF h = <<>> THEN 0 ELSE h[1][2] + SumY(Tail(h))

\* the jitter test of smooth(): a stable point exists and the new point
\* is closer to it than jitter_threshold on both axes
WithinJitter(s, point) ==
    /\ s.last_stable_point # None
    /\ Abs(point[1] - s.last_stable_point[1]) < s.jitter_threshold
    /\ Abs(point[2] - s.last_stable_point[2]) < s.jitter_threshold

\* smooth(None) that forgets the stable point when the hand is lost
smooth_none_forgets(s, point, tx, ty) ==
    [s EXCEPT !.last_stable_point = None, !.ret = None]

\* smooth() whose jitter test returns the new point
smooth_gate_returns_new(s, point, tx, ty) ==
    [s EXCEPT !.ret = point]

\* the part of smooth() after the jitter test: filter, average, truncate
smooth_filtered(s, point, tx, ty) ==
    LET fx == OneEuroFilter_call(s.filter_x, point[1] * Scale, tx)
        fy == OneEuroFilter_call(s.filter_y, point[2] * Scale, ty)
        h  == deque_append(s.point_history, <<fx.out, fy.out>>,
                           s.window_size)
        result == <<TruncDiv(SumX(h), Len(h) * Scale),
                    TruncDiv(SumY(h), Len(h) * Scale)>>
    IN  [s EXCEPT !.filter_x = fx.f, !.filter_y = fy.f,
                  !.point_history = h,
                  !.last_stable_point = result,
                  !.ret = result]

smooth_none(s, point, tx, ty) == [s EXCEPT !.ret = None]

smooth_gated(s, point, tx, ty) == [s EXCEPT !.ret = s.last_stable_point]

\* PointSmoother.smooth(point, t); tx and ty are the timestamps the two
\* filters see: t when the caller passes one, two successive clock reads
\* when not
smooth(s, point, tx, ty) ==
    IF point = None THEN smooth_none(s, point, tx, ty)
    ELSE IF WithinJitter(s, point) THEN smooth_gated(s, point, tx, ty)
    ELSE smooth_filtered(s, point, tx, ty)

\* PointSmoother.reset(): two filters with the default parameters
reset(s) ==
    [s EXCEPT !.filter_x = OneEuroFilter_init(Scale \div 2,
                                              (5 * Scale) \div 1000, Scale),
              !.filter_y = OneEuroFilter_init(Scale \div 2,
                                              (5 * Scale) \div 1000, Scale),
              !.ret = None]

---------------------------------------------------------------------------
(* DrawingEngine: methods as functions of the engine record                *)
(* [canvas, undo_stack, redo_stack, ret]                                   *)

\* save_state() that forgets to clear the redo stack
save_state_keeps_redo(e) ==
    [e EXCEPT !.undo_stack = deque_append(e.undo_stack, e.canvas, MaxStates),
              !.ret = None]

\* save_state() on a plain list: nothing is ever dropped
save_state_unbounded(e) ==
    [e EXCEPT !.undo_stack = Append(e.undo_stack, e.canvas),
              !.redo_stack = <<>>,
              !.ret = None]

save_state(e) ==
    [e EXCEPT !.undo_stack = deque_append(e.undo_stack, e.canvas, MaxStates),
              !.redo_stack = <<>>,
              !.ret = None]

DrawingEngine_init ==
    save_state([canvas |-> BlankCanvas, undo_stack |-> <<>>,
                redo_stack |-> <<>>, ret |-> None])

\* undo() guarded by "> 0": it pops the last snapshot too, and then fails
\* on undo_stack[-1] with the canvas as it was
undo_no_floor(e) ==
    IF Len(e.undo_stack) > 0
    THEN LET rest == Front(e.undo_stack)
         IN  [canvas     |-> IF rest = <<>> THEN e.canvas ELSE Last(rest),
              undo_stack |-> rest,
              redo_stack |-> deque_append(e.redo_stack, Last(e.undo_stack),
                                          MaxStates),
              ret        |-> Returned(rest # <<>>)]
    ELSE [e EXCEPT !.ret = Returned(FALSE)]

\* undo() that restores the top snapshot also when it has nothing to pop
undo_restores_at_floor(e) ==
    IF Len(e.undo_stack) > 1
    THEN LET rest == Front(e.undo_stack)
         IN  [canvas     |-> Last(rest),
              undo_stack |-> rest,
              redo_stack |-> deque_append(e.redo_stack, Last(e.undo_stack),
                                          MaxStates),
              ret        |-> Returned(TRUE)]
    ELSE [e EXCEPT !.canvas = Last(e.undo_stack), !.ret = Returned(FALSE)]

\* undo() that copies the top snapshot to the redo stack and pops nothing
undo_without_pop(e) ==
    IF Len(e.undo_stack) > 1
    THEN [canvas     |-> Last(Front(e.undo_stack)),
          undo_stack |-> e.undo_stack,
          redo_stack |-> deque_append(e.redo_stack, Last(e.undo_stack),
                                      MaxStates),
          ret        |-> Returned(TRUE)]
    ELSE [e EXCEPT !.ret = Returned(FALSE)]

undo(e) ==
    IF Len(e.undo_stack) > 1
    THEN LET rest == Front(e.undo_stack)
         IN  [canvas     |-> Last(rest),
              undo_stack |-> rest,
              redo_stack |-> deque_append(e.redo_stack, Last(e.undo_stack),
                                          MaxStates),
              ret        |-> Returned(TRUE)]
    ELSE [e EXCEPT !.ret = Returned(FALSE)]

\* redo() that forgets to push the snapshot back on the undo stack
redo_without_push(e) ==
    IF e.redo_stack # <<>>
    THEN LET state == Last(e.redo_stack)
         IN  [canvas     |-> state,
              undo_stack |-> e.undo_stack,
              redo_stack |-> Front(e.redo_stack),
              ret        |-> Returned(TRUE)]
    ELSE [e EXCEPT !.ret = Returned(FALSE)]

redo(e) ==
    IF e.redo_stack # <<>>
    THEN LET state == Last(e.redo_stack)
         IN  [canvas     |-> state,
              undo_stack |-> deque_append(e.undo_stack, state, MaxStates),
              redo_stack |-> Front(e.redo_stack),
              ret        |-> Returned(TRUE)]
    ELSE [e EXCEPT !.ret = Returned(FALSE)]

clear(e) ==
    [save_state(e) EXCEPT !.canvas = [p \in DOMAIN e.canvas |-> White],
                          !.ret = None]

---------------------------------------------------------------------------
(* Painting primitives *)

Dist2(a, b) == (b[1] - a[1]) * (b[1] - a[1]) + (b[2] - a[2]) * (b[2] - a[2])

\* cv2.circle(img, center, radius, color, -1): the filled disc
InCircle(p, center, radius) == Dist2(p, center) <= radius * radius

\* cv2.line(img, pt1, pt2, color, thickness): the pixels within thickness/2
\* of the segment pt1-pt2
OnLine(p, pt1, pt2, thickness) ==
    LET dx == pt2[1] - pt1[1]
        dy == pt2[2] - pt1[2]
        L2 == dx * dx + dy * dy
        dot == (p[1] - pt1[1]) * dx + (p[2] - pt1[2]) * dy
        t  == IF dot < 0 THEN 0 ELSE IF dot > L2 THEN L2 ELSE dot
        ex == (p[1] - pt1[1]) * L2 - t * dx
        ey == (p[2] - pt1[2]) * L2 - t * dy
        Min(a, b) == IF a < b THEN a ELSE b
        Max(a, b) == IF a > b THEN a ELSE b
        \* p is within thickness of the box around the segment (a pixel
        \* outside that box is farther than thickness / 2 from the segment)
        near == /\ p[1] >= Min(pt1[1], pt2[1]) - thickness
                /\ p[1] <= Max(pt1[1], pt2[1]) + thickness
                /\ p[2] >= Min(pt1[2], pt2[2]) - thickness
                /\ p[2] <= Max(pt1[2], pt2[2]) + thickness
    IN  IF L2 = 0
        THEN 4 * Dist2(p, pt1) <= thickness * thickness
        ELSE near /\ 4 * (ex * ex + ey * ey) <= thickness * thickness * L2 * L2

\* cv2.circle(img, center, radius, color, thickness) with thickness > 0:
\* the ring of pixels within thickness/2 of the circle line
OnCircle(p, center, radius, thickness) ==
    LET d2 == Dist2(p, center)
        outer == 2 * radius + thickness
        inner == 2 * radius - thickness
    IN  /\ 4 * d2 <= outer * outer
        /\ inner > 0 => 4 * d2 >= inner * inner

\* cv2.rectangle(img, pt1, pt2, color, thickness) with thickness > 0: the
\* four sides of the box with corners pt1 and pt2
OnRectangle(p, pt1, pt2, thickness) ==
    LET c1 == <<pt2[1], pt1[2]>>
        c2 == <<pt1[1], pt2[2]>>
    IN  \/ OnLine(p, pt1, c1, thickness)
        \/ OnLine(p, c1, pt2, thickness)
        \/ OnLine(p, pt2, c2, thickness)
        \/ OnLine(p, c2, pt1, thickness)

\* cvRound(tipSize * cos(angle +- pi/4)) of cv2.arrowedLine with
\* tipLength = 0.3: v is the sum or difference of the segment's dx and dy,
\* and 0.3 / sqrt(2) = 0.21213
ArrowReach(v) == RoundDiv(21213 * v, 100000)

\* cv2.arrowedLine(img, pt1, pt2, color, thickness, tipLength=0.3): the
\* segment and the two strokes of the tip at pt2
OnArrow(p, pt1, pt2, thickness) ==
    LET dx == pt1[1] - pt2[1]
        dy == pt1[2] - pt2[2]
        tip1 == <<pt2[1] + ArrowReach(dx - dy), pt2[2] + ArrowReach(dy + dx)>>
        tip2 == <<pt2[1] + ArrowReach(dx + dy), pt2[2] + ArrowReach(dy - dx)>>
    IN  \/ OnLine(p, pt1, pt2, thickness)
        \/ OnLine(p, tip1, pt2, thickness)
        \/ OnLine(p, tip2, pt2, thickness)

\* int(np.sqrt(d2) // 2): the largest r with 2 * r <= sqrt(d2)
ShapeRadius(d2) ==
    CHOOSE r \in 0 .. d2 : 4 * r * r <= d2 /\ 4 * (r + 1) * (r + 1) > d2

\* the four shape tools
ShapeModes == {"circle", "rectangle", "line", "arrow"}

\* the pixels the primitive of shape_mode covers between the start point
\* and point; a shape_mode that is none of the four paints nothing
ShapePainted(p, shape_mode, start, point, thickness) ==
    CASE shape_mode = "circle" ->
            OnCircle(p, <<(start[1] + point[1]) \div 2,
                          (start[2] + point[2]) \div 2>>,
                     ShapeRadius(Dist2(start, point)), thickness)
      [] shape_mode = "rectangle" -> OnRectangle(p, start, point, thickness)
      [] shape_mode = "line"      -> OnLine(p, start, point, thickness)
      [] shape_mode = "arrow"     -> OnArrow(p, start, point, thickness)
      [] OTHER                    -> FALSE

\* int(dist / (thickness / 2)) with dist = sqrt(d2): the largest n with
\* n * thickness <= 2 * dist
NumPoints(d2, thickness) ==
    CHOOSE n \in 0 .. 2 * d2 :
        /\ n * n * thickness * thickness <= 4 * d2
        /\ (n + 1) * (n + 1) * thickness * thickness > 4 * d2

\* the i-th interpolated centre of draw_line's loop, i in 0 .. num_points-1
InterpPoint(pt1, pt2, i, num_points) ==
    <<TruncDiv(pt1[1] * num_points + i * (pt2[1] - pt1[1]), num_points),
      TruncDiv(pt1[2] * num_points + i * (pt2[2] - pt1[2]), num_points)>>

\* the centres of the circles draw_line's loop places
Centres(pt1, pt2, thickness) ==
    LET num_points == NumPoints(Dist2(pt1, pt2), thickness)
    IN  [i \in 1 .. num_points |->
            InterpPoint(pt1, pt2, i - 1, num_points)]

\* draw_line that places the circles and leaves out the line
DrawLine_circles_only(p, pt1, pt2, thickness) ==
    LET d2 == Dist2(pt1, pt2)
        num_points == NumPoints(d2, thickness)
    IN  /\ d2 > 4 * thickness * thickness
        /\ \E i \in 0 .. num_points - 1 :
              InCircle(p, InterpPoint(pt1, pt2, i, num_points),
                       thickness \div 2)

\* the pixels draw_line paints
DrawLinePainted(p, pt1, pt2, thickness) ==
    LET d2 == Dist2(pt1, pt2)
        num_points == NumPoints(d2, thickness)
    IN  \/ /\ d2 > 4 * thickness * thickness          \* dist > thickness * 2
           /\ \E i \in 0 .. num_points - 1 :
                InCircle(p, InterpPoint(pt1, pt2, i, num_points),
                         thickness \div 2)
        \/ OnLine(p, pt1, pt2, thickness)

\* draw_line() that takes a snapshot of its own before it paints
draw_line_saves(e, pt1, pt2, color, thickness) ==
    LET saved == save_state(e)
    IN  IF pt1 # None /\ pt2 # None
        THEN [saved EXCEPT !.canvas =
                 [p \in DOMAIN e.canvas |->
                    IF DrawLinePainted(p, pt1, pt2, thickness)
                    THEN color ELSE e.canvas[p]],
                   !.ret = None]
        ELSE [e EXCEPT !.ret = None]

draw_line(e, pt1, pt2, color, thickness) ==
    IF pt1 # None /\ pt2 # None
    THEN [e EXCEPT !.canvas =
                 [p \in DOMAIN e.canvas |->
                    IF DrawLinePainted(p, pt1, pt2, thickness)
                    THEN color ELSE e.canvas[p]],
                   !.ret = None]
    ELSE [e EXCEPT !.ret = None]

erase(e, center, radius) ==
    IF center # None
    THEN [e EXCEPT !.canvas =
                 [p \in DOMAIN e.canvas |->
                    IF InCircle(p, center, radius)
                    THEN White ELSE e.canvas[p]],
                   !.ret = None]
    ELSE [e EXCEPT !.ret = None]

---------------------------------------------------------------------------
(* Compositing *)

RECURSIVE BitAnd(_, _), BitOr(_, _)
\* bitwise AND / OR of two non-negative integers (uint8 values)
BitAnd(a, b) ==
    IF a = 0 \/ b = 0 THEN 0
    ELSE (a % 2) * (b % 2) + 2 * BitAnd(a \div 2, b \div 2)

BitOr(a, b) ==
    IF a = 0 THEN b
    ELSE IF b = 0 THEN a
    ELSE (IF a % 2 = 1 \/ b % 2 = 1 THEN 1 ELSE 0)
         + 2 * BitOr(a \div 2, b \div 2)

\* cv2.cvtColor(px, COLOR_BGR2GRAY) on uint8: fixed-point luma, rounded
BGR2GRAY(px) == (px[1] * 3735 + px[2] * 19235 + px[3] * 9798 + 16384) \div 32768

\* cv2.threshold(gray, 50, 255, THRESH_BINARY_INV)
ThresholdBinaryInv(g) == IF g > Threshold THEN 0 ELSE MaxVal

\* cv2.cvtColor(m, COLOR_GRAY2BGR)
GRAY2BGR(m) == <<m, m, m>>

bitwise_and(a, b) == <<BitAnd(a[1], b[1]), BitAnd(a[2], b[2]), BitAnd(a[3], b[3])>>
bitwise_or(a, b)  == <<BitOr(a[1], b[1]), BitOr(a[2], b[2]), BitOr(a[3], b[3])>>

\* overlay_on_frame for a frame of the canvas's own shape (no resize)
overlay_on_frame(e, frame) ==
    [p \in DOMAIN frame |->
        LET img_inv == GRAY2BGR(ThresholdBinaryInv(BGR2GRAY(e.canvas[p])))
        IN  bitwise_or(bitwise_and(frame[p], img_inv), e.canvas[p])]

get_canvas(e) == e.canvas

---------------------------------------------------------------------------
(* DrawingEngine with its buffers as objects: the methods as functions of  *)
(* the record [heap, canvas, undo_stack, redo_stack, held], in which       *)
(* canvas and the stack entries are buffer ids                             *)

\* the id of a newly allocated buffer
FreshId(h) == CHOOSE i \in 1 .. Cardinality(DOMAIN h) + 1 : i \notin DOMAIN h

\* the heap with buffer b holding content
Put(h, b, content) ==
    [i \in DOMAIN h \cup {b} |-> IF i = b THEN content ELSE h[i]]

\* the elements of h in the order of their first occurrence
RECURSIVE FirstSeen(_)
FirstSeen(h) ==
    IF h = <<>> THEN <<>>
    ELSE LET d == FirstSeen(Front(h))
         IN  IF Last(h) \in Range(d) THEN d ELSE Append(d, Last(h))

\* reference counting: a buffer nothing refers to is freed. Ids are names
\* only: the buffers left are numbered in the order canvas, undo stack,
\* redo stack, callers
Collect(m) ==
    LET refs == FirstSeen(<<m.canvas>> \o m.undo_stack \o m.redo_stack
                          \o m.held)
        id(b) == CHOOSE i \in 1 .. Len(refs) : refs[i] = b
    IN  [heap |-> [i \in 1 .. Len(refs) |-> m.heap[refs[i]]],
         canvas |-> id(m.canvas),
         undo_stack |-> [i \in 1 .. Len(m.undo_stack) |->
                            id(m.undo_stack[i])],
         redo_stack |-> [i \in 1 .. Len(m.redo_stack) |->
                            id(m.redo_stack[i])],
         held |-> [i \in 1 .. Len(m.held) |-> id(m.held[i])]]

\* self.undo_stack.append(self.canvas.copy()); self.redo_stack.clear()
save_state_ref(m) ==
    LET b == FreshId(m.heap)
    IN  Collect([m EXCEPT
            !.heap = Put(m.heap, b, m.heap[m.canvas]),
            !.undo_stack = deque_append(m.undo_stack, b, MaxStates),
            !.redo_stack = <<>>])

\* self.canvas = self.undo_stack[-1].copy()
undo_ref(m) ==
    IF Len(m.undo_stack) > 1
    THEN LET rest == Front(m.undo_stack)
             b == FreshId(m.heap)
         IN  Collect([m EXCEPT
                 !.heap = Put(m.heap, b, m.heap[Last(rest)]),
                 !.canvas = b,
                 !.undo_stack = rest,
                 !.redo_stack = deque_append(m.redo_stack,
                                             Last(m.undo_stack), MaxStates)])
    ELSE m

\* redo() with self.canvas = state: the canvas is the snapshot's buffer
redo_ref_shares(m) ==
    IF m.redo_stack # <<>>
    THEN LET state == Last(m.redo_stack)
         IN  Collect([m EXCEPT
                 !.canvas = state,
                 !.undo_stack = deque_append(m.undo_stack, state, MaxStates),
                 !.redo_stack = Front(m.redo_stack)])
    ELSE m

\* self.undo_stack.append(state); self.canvas = state.copy()
redo_ref(m) ==
    IF m.redo_stack # <<>>
    THEN LET state == Last(m.redo_stack)
             b == FreshId(m.heap)
         IN  Collect([m EXCEPT
                 !.heap = Put(m.heap, b, m.heap[state]),
                 !.canvas = b,
                 !.undo_stack = deque_append(m.undo_stack, state, MaxStates),
                 !.redo_stack = Front(m.redo_stack)])
    ELSE m

\* self.save_state(); self.canvas = np.full(...)
clear_ref(m) ==
    LET saved == save_state_ref(m)
        b == FreshId(saved.heap)
    IN  Collect([saved EXCEPT
            !.heap = Put(saved.heap, b,
                         [p \in DOMAIN m.heap[m.canvas] |-> White]),
            !.canvas = b])

\* cv2.circle / cv2.line paint into the buffer self.canvas refers to
draw_line_ref(m, pt1, pt2, color, thickness) ==
    [m EXCEPT !.heap[m.canvas] =
        draw_line([canvas |-> m.heap[m.canvas], ret |-> None],
                  pt1, pt2, color, thickness).canvas]

erase_ref(m, center, radius) ==
    [m EXCEPT !.heap[m.canvas] =
        erase([canvas |-> m.heap[m.canvas], ret |-> None],
              center, radius).canvas]

\* handle_shape_tool's cv2 call paints into the buffer
\* self.drawing_engine.canvas refers to
shape_ref(m, shape_mode, start, point, color, thickness) ==
    [m EXCEPT !.heap[m.canvas] =
        [p \in DOMAIN @ |->
            IF ShapePainted(p, shape_mode, start, point, thickness)
            THEN color ELSE @[p]]]

\* get_canvas() that returns the live buffer
get_canvas_live(m) ==
    Collect([m EXCEPT !.held = Append(m.held, m.canvas)])

\* return self.canvas.copy(): the caller holds a new buffer
get_canvas_ref(m) ==
    LET b == FreshId(m.heap)
    IN  Collect([m EXCEPT !.heap = Put(m.heap, b, m.heap[m.canvas]),
                          !.held = Append(m.held, b)])

---------------------------------------------------------------------------
(* GestureRecognizer *)

\* a landmark list is a sequence of (id, x, y); landmarks[i] in the source
\* is the i+1-th element here
LM(lms, i) == lms[i + 1]
LmX(l) == l[2]
LmY(l) == l[3]

\* _distance(p1, p2) squared: np.sqrt is monotone, so distances are
\* compared by their squares
Distance2(p1, p2) ==
    (LmX(p1) - LmX(p2)) * (LmX(p1) - LmX(p2))
    + (LmY(p1) - LmY(p2)) * (LmY(p1) - LmY(p2))

\* one of the four fingers index .. pinky: tip above (smaller y than) the
\* joint two landmarks before it
FingerUp(lms, tip_id) ==
    IF LmY(LM(lms, tip_id)) < LmY(LM(lms, tip_id - 2)) THEN 1 ELSE 0

\* [thumb, index, middle, ring, pinky]
_get_finger_states(lms) ==
    << IF Distance2(LM(lms, 0), LM(lms, 4)) > Distance2(LM(lms, 0), LM(lms, 3))
       THEN 1 ELSE 0,
       FingerUp(lms, 8), FingerUp(lms, 12), FingerUp(lms, 16),
       FingerUp(lms, 20) >>

\* thumb_index_dist < 40
IsPinch(lms) == Distance2(LM(lms, 4), LM(lms, 8)) < PinchDist * PinchDist

SumFingers(f) == f[1] + f[2] + f[3] + f[4] + f[5]

\* the rules with the pinch test moved in front of the erase test
RawGesture_pinch_first(lms) ==
    LET fingers == _get_finger_states(lms)
        thumb  == fingers[1] = 1
        index  == fingers[2] = 1
        middle == fingers[3] = 1
        ring   == fingers[4] = 1
        pinky  == fingers[5] = 1
    IN  IF SumFingers(fingers) = 0 THEN "fist"
        ELSE IF SumFingers(fingers) = 5 THEN "palm_open"
        ELSE IF IsPinch(lms) THEN "pinch"
        ELSE IF ~thumb /\ index /\ middle /\ ring /\ pinky THEN "erase"
        ELSE IF index /\ ~middle /\ ~ring /\ ~pinky THEN "draw"
        ELSE IF index /\ middle /\ ~ring /\ ~pinky THEN "navigate"
        ELSE "none"

\* the label recognize() computes before it consults the history
RawGesture(lms) ==
    LET fingers == _get_finger_states(lms)
        thumb  == fingers[1] = 1
        index  == fingers[2] = 1
        middle == fingers[3] = 1
        ring   == fingers[4] = 1
        pinky  == fingers[5] = 1
    IN  IF SumFingers(fingers) = 0 THEN "fist"
        ELSE IF SumFingers(fingers) = 5 THEN "palm_open"
        ELSE IF ~thumb /\ index /\ middle /\ ring /\ pinky THEN "erase"
        ELSE IF IsPinch(lms) THEN "pinch"
        ELSE IF index /\ ~middle /\ ~ring /\ ~pinky THEN "draw"
        ELSE IF index /\ middle /\ ~ring /\ ~pinky THEN "navigate"
        ELSE "none"

Count(s, x) == Cardinality({i \in 1 .. Len(s) : s[i] = x})

\* max(set(history), key=history.count): the first label of maximal count
\* in the iteration order of a set of strings, which the language leaves
\* open: any label of maximal count
MostCommon(h) ==
    {g \in Range(h) : \A g2 \in Range(h) : Count(h, g) >= Count(h, g2)}

Orderings(S) ==
    {p \in [1 .. Cardinality(S) -> S] : Range(p) = S}

\* the iteration orders set(h) can have: str hashes are fixed for the life
\* of the process (and differ between processes), so a set built by the
\* same insertions iterates in the order it had before; an order not yet
\* observed can be any
SetOrders(h, order) ==
    IF FirstSeen(h) \in DOMAIN order
    THEN {order[FirstSeen(h)]}
    ELSE Orderings(Range(h))

\* max(it, key=h.count): the first element of it whose count is maximal
MaxByCount(it, h) ==
    it[CHOOSE i \in 1 .. Len(it) :
          /\ \A j \in 1 .. Len(it) : Count(h, it[i]) >= Count(h, it[j])
          /\ \A j \in 1 .. i - 1 : Count(h, it[j]) < Count(h, it[i])]

\* the orders known after set(h) iterated as it; only the orders that
\* decided a tie are recorded
Remember(order, h, it) ==
    IF Cardinality(MostCommon(h)) > 1 /\ FirstSeen(h) \notin DOMAIN order
    THEN [k \in DOMAIN order \cup {FirstSeen(h)} |->
             IF k = FirstSeen(h) THEN it ELSE order[k]]
    ELSE order

\* recognize() that pushes the voted label on the history
recognize_pushes_voted(r, lms, chosen) ==
    IF Len(lms) < NumLandmarks
    THEN [r EXCEPT !.ret = <<"none", 0>>]
    ELSE [gesture_history |->
              deque_append(r.gesture_history, chosen, HistoryLen),
          current_gesture |-> chosen,
          ret |-> <<chosen, 1>>]

\* recognize() that classifies a list that is too short as "none" and
\* lets it take part in the vote
recognize_short_votes(r, lms, chosen) ==
    IF Len(lms) < NumLandmarks
    THEN [gesture_history |->
              deque_append(r.gesture_history, "none", HistoryLen),
          current_gesture |-> "none",
          ret |-> <<"none", 0>>]
    ELSE [gesture_history |->
              deque_append(r.gesture_history, RawGesture(lms), HistoryLen),
          current_gesture |-> chosen,
          ret |-> <<chosen, 1>>]

\* recognize() on the recogniser record [gesture_history, current_gesture,
\* ret]; chosen is the label max() picks among MostCommon
recognize(r, lms, chosen) ==
    IF Len(lms) < NumLandmarks
    THEN [r EXCEPT !.ret = <<"none", 0>>]
    ELSE [gesture_history |->
              deque_append(r.gesture_history, RawGesture(lms), HistoryLen),
          current_gesture |-> chosen,
          ret |-> <<chosen, 1>>]

\* the outcomes of r.recognize(lms) in a process whose known set orders
\* are order: the recogniser after the call and the orders known then
Recognized(r, lms, order) ==
    IF Len(lms) < NumLandmarks
    THEN {[rec |-> recognize(r, lms, "none"), order |-> order]}
    ELSE LET h == deque_append(r.gesture_history, RawGesture(lms),
                               HistoryLen)
         IN  {[rec |-> recognize(r, lms, MaxByCount(it, h)),
               order |-> Remember(order, h, it)] : it \in SetOrders(h, order)}

---------------------------------------------------------------------------
(* AirSigGUI: the gesture dispatcher *)

\* self.color_list
color_list ==
    <<"red", "blue", "green", "yellow", "cyan", "magenta", "white", "black">>

\* ColorPalette.get_color(name), for the names of COLORS
get_color(name) ==
    CASE name = "red"     -> <<0, 0, 255>>
      [] name = "green"   -> <<0, 255, 0>>
      [] name = "blue"    -> <<255, 0, 0>>
      [] name = "yellow"  -> <<0, 255, 255>>
      [] name = "cyan"    -> <<255, 255, 0>>
      [] name = "magenta" -> <<255, 0, 255>>
      [] name = "black"   -> <<0, 0, 0>>
      [] OTHER            -> <<255, 255, 255>>

\* the fields AirSigGUI.__init__ gives the dispatcher; brush_opacity is in
\* percent, shape_mode is None until a shape tool is picked
AirSigGUI_init ==
    [brush_color |-> <<0, 0, 255>>,
     brush_size |-> 5,
     brush_opacity |-> 100,
     eraser_size |-> 20,
     smoothing_enabled |-> TRUE,
     current_color_index |-> 0,
     last_pinch_state |-> FALSE,
     project_modified |-> FALSE,
     stabilization_level |-> "high",
     jitter_threshold |-> 5,
     shape_mode |-> None,
     shape_start_point |-> None,
     color_var |-> "red",
     current_gesture |-> "none",
     prev_draw_point |-> None]

\* the brush colour blended with white when brush_opacity < 1.0
color_with_opacity(g) ==
    IF g.brush_opacity < 100
    THEN [c \in 1 .. 3 |->
             (g.brush_color[c] * g.brush_opacity
                + 255 * (100 - g.brush_opacity)) \div 100]
    ELSE g.brush_color

\* the smoothing step of process_gestures for hand idx: the smoothers
\* after it and the finger tip the gesture branches get
smoothed_tip(w, idx, finger_tip, tx, ty) ==
    IF w.gui.smoothing_enabled
    THEN LET s0 == IF idx \in DOMAIN w.smoothers
                   THEN w.smoothers[idx]
                   ELSE PointSmoother_init(w.gui.jitter_threshold,
                                           w.gui.stabilization_level)
             s1 == smooth(s0, finger_tip, tx, ty)
         IN  [smoothers |-> [i \in DOMAIN w.smoothers \cup {idx} |->
                                IF i = idx THEN s1 ELSE w.smoothers[i]],
              finger_tip |-> s1.ret]
    ELSE [smoothers |-> [i \in DOMAIN w.smoothers |->
                            IF i = idx THEN reset(w.smoothers[i])
                            ELSE w.smoothers[i]],
          finger_tip |-> finger_tip]

\* a call of an engine method made by the dispatcher, with its points
EngineCall(name, pt1, pt2) == [name |-> name, pt1 |-> pt1, pt2 |-> pt2]

\* the "draw" branch
on_draw(w, finger_tip) ==
    LET g == w.gui
        w1 == IF g.prev_draw_point # None
              THEN [w EXCEPT !.drawing_engine =
                                 draw_line(w.drawing_engine,
                                           g.prev_draw_point, finger_tip,
                                           color_with_opacity(g),
                                           g.brush_size),
                             !.engine_call = "draw_line",
                             !.calls = Append(@, EngineCall("draw_line",
                                                 g.prev_draw_point,
                                                 finger_tip)),
                             !.gui.project_modified = TRUE]
              ELSE [w EXCEPT !.drawing_engine = save_state(w.drawing_engine),
                             !.engine_call = "save_state",
                             !.calls = Append(@, EngineCall("save_state",
                                                 None, None))]
    IN  [w1 EXCEPT !.gui.prev_draw_point = finger_tip,
                   !.gui.current_gesture = "Drawing"]

\* AirSigGUI.handle_shape_tool(point): the first call keeps the point, the
\* second paints the primitive on the engine's canvas
handle_shape_tool(w, point) ==
    LET g == w.gui
        e == w.drawing_engine
    IN  IF g.shape_start_point = None
        THEN [w EXCEPT !.gui.shape_start_point = Some(point)]
        ELSE [w EXCEPT
                 !.drawing_engine.canvas =
                     [p \in DOMAIN e.canvas |->
                         IF ShapePainted(p, Val(g.shape_mode),
                                         Val(g.shape_start_point), point,
                                         g.brush_size)
                         THEN g.brush_color ELSE e.canvas[p]],
                 !.engine_call = "shape",
                 !.calls = Append(@, EngineCall(Val(g.shape_mode),
                                                Val(g.shape_start_point),
                                                point)),
                 !.gui.shape_start_point = None,
                 !.gui.shape_mode = None,
                 !.gui.project_modified = TRUE]

\* the "navigate" branch: the shape tool is served for the first hand
on_navigate(w, idx, finger_tip) ==
    LET w1 == [w EXCEPT !.gui.prev_draw_point = None]
        w2 == IF w1.gui.shape_mode # None /\ idx = 0
              THEN handle_shape_tool(w1, finger_tip)
              ELSE w1
    IN  [w2 EXCEPT !.gui.current_gesture = "Navigate"]

\* AirSigGUI.set_shape_mode(shape): picking the selected tool again
\* switches it off
set_shape_mode(g, shape) ==
    IF g.shape_mode = Some(shape)
    THEN [g EXCEPT !.shape_mode = None]
    ELSE [g EXCEPT !.shape_mode = Some(shape)]

\* the "erase" branch without the test of prev_draw_point
on_erase_saves_always(w, finger_tip) ==
    LET g == w.gui
    IN  [w EXCEPT !.drawing_engine = erase(save_state(w.drawing_engine),
                                           finger_tip, g.eraser_size),
                  !.engine_call = "erase",
                  !.calls = @ \o <<EngineCall("save_state", None, None),
                                   EngineCall("erase", finger_tip, None)>>,
                  !.gui.prev_draw_point = finger_tip,
                  !.gui.current_gesture = "Erasing",
                  !.gui.project_modified = TRUE]

\* the "erase" branch
on_erase(w, finger_tip) ==
    LET g == w.gui
        e1 == IF g.prev_draw_point = None
              THEN save_state(w.drawing_engine)
              ELSE w.drawing_engine
    IN  [w EXCEPT !.drawing_engine = erase(e1, finger_tip, g.eraser_size),
                  !.engine_call = "erase",
                  !.calls =
                      (IF g.prev_draw_point = None
                       THEN Append(@, EngineCall("save_state", None, None))
                       ELSE @) \o <<EngineCall("erase", finger_tip, None)>>,
                  !.gui.prev_draw_point = finger_tip,
                  !.gui.current_gesture = "Erasing",
                  !.gui.project_modified = TRUE]

\* the "fist" branch
on_fist(w) ==
    [w EXCEPT !.drawing_engine = clear(w.drawing_engine),
              !.engine_call = "clear",
              !.calls = Append(@, EngineCall("clear", None, None)),
              !.gui.prev_draw_point = None,
              !.gui.current_gesture = "Clear All",
              !.gui.project_modified = TRUE]

\* a "palm_open" branch that leaves the previous point
on_palm_open_keeps_point(w) ==
    [w EXCEPT !.gui.current_gesture = "Paused"]

\* the "palm_open" branch
on_palm_open(w) ==
    [w EXCEPT !.gui.prev_draw_point = None,
              !.gui.current_gesture = "Paused"]

\* the "pinch" branch: the colour advances when last_pinch_state is unset
on_pinch(w) ==
    LET g == w.gui
        index == (g.current_color_index + 1) % Len(color_list)
        color_name == color_list[index + 1]
    IN  IF ~g.last_pinch_state
        THEN [w EXCEPT !.gui.current_color_index = index,
                       !.gui.brush_color = get_color(color_name),
                       !.gui.color_var = color_name,
                       !.gui.last_pinch_state = TRUE,
                       \* f"Color Changed: {color_name.title()}"
                       !.gui.current_gesture = "Color Changed: " \o color_name,
                       !.gui.prev_draw_point = None]
        ELSE [w EXCEPT !.gui.current_gesture = "Pinch (Hold)",
                       !.gui.prev_draw_point = None]

\* the last branch: any other label
on_other(w) ==
    [w EXCEPT !.gui.prev_draw_point = None,
              !.gui.current_gesture = "Unknown",
              !.gui.last_pinch_state = FALSE]

\* the end of the loop's body: last_pinch_state is cleared unless the hand
\* pinches; what the hand did goes to the frame's trace
after_branch(w, idx, gesture) ==
    [w EXCEPT !.gui.last_pinch_state = IF gesture # "pinch" THEN FALSE ELSE @,
              !.trace = Append(@, [idx |-> idx, gesture |-> gesture,
                                   calls |-> w.calls,
                                   tip |-> w.gui.prev_draw_point]),
              !.calls = <<>>]

\* the body of the loop over hands_data after recognize() returned gesture
handle_gesture(w, idx, lms, gesture, tx, ty) ==
    LET w2 == IF Len(lms) > 8
              THEN LET st == smoothed_tip(w, idx,
                                          <<LmX(LM(lms, 8)), LmY(LM(lms, 8))>>,
                                          tx, ty)
                       w1 == [w EXCEPT !.smoothers = st.smoothers]
                       finger_tip == st.finger_tip
                   IN  CASE gesture = "draw"      -> on_draw(w1, finger_tip)
                         [] gesture = "navigate"  -> on_navigate(w1, idx,
                                                        finger_tip)
                         [] gesture = "erase"     -> on_erase(w1, finger_tip)
                         [] gesture = "fist"      -> on_fist(w1)
                         [] gesture = "palm_open" -> on_palm_open(w1)
                         [] gesture = "pinch"     -> on_pinch(w1)
                         [] OTHER                 -> on_other(w1)
              ELSE w
    IN  \* v is the world the branch leaves
        CHOOSE w3 \in {after_branch(v, idx, gesture) : v \in {w2}} : TRUE

\* one pass of the loop, for hand idx: the worlds it can end in (one for
\* each way the recogniser's vote can go)
process_hand(w, idx, hand, tx, ty) ==
    IF hand.landmarks = <<>>
    THEN {w}
    ELSE {handle_gesture([w EXCEPT !.gesture_recognizer = o.rec,
                                   !.set_order = o.order],
                         idx, hand.landmarks, o.rec.ret[1], tx, ty) :
             o \in Recognized(w.gesture_recognizer, hand.landmarks,
                              w.set_order)}

RECURSIVE process_hands(_, _, _, _, _)
process_hands(ws, hands, idx, tx, ty) ==
    IF idx >= Len(hands)
    THEN ws
    ELSE process_hands(UNION {process_hand(w, idx, hands[idx + 1], tx, ty) :
                                 w \in ws},
                       hands, idx + 1, tx, ty)

\* process_gestures(hands_data, frame) on the world w = [gui,
\* drawing_engine, engine_call, gesture_recognizer, set_order, smoothers];
\* tx and ty are the clock readings of the frame's smooth() call
process_gestures(w, hands, tx, ty) ==
    IF hands = <<>>
    THEN {[w EXCEPT !.gui.current_gesture = "none",
                    !.gui.prev_draw_point = None]}
    ELSE process_hands({w}, hands, 0, tx, ty)

---------------------------------------------------------------------------
(* Inputs *)

\* points handed to draw_line / erase: the canvas pixels and one point
\* beyond the right edge
PointInputs == Pixels \cup {<<Width + 2, 0>>}
MaybePoint  == PointInputs \cup {None}
Thicknesses == {1, 3}
Radii       == {0, 1}
BrushColors == {Red, Black}
AllColors   == {Red, Blue, Black}
FramePixels == {<<85, 170, 51>>, <<200, 100, 50>>}
Frames      == [Pixels -> FramePixels]

\* a 21-landmark hand: wrist, thumb joint and the middle joints fixed, the
\* thumb tip, the index tip (thumb tip + index_off), the index joint
\* (index tip + pip_dy in y) and the other three tips' heights given
HandFrame(thumb_tip, index_off, pip_dy, y12, y16, y20) ==
    LET x8 == thumb_tip[1] + index_off[1]
        y8 == thumb_tip[2] + index_off[2]
    IN  [i \in 1 .. NumLandmarks |->
            CASE i - 1 = 3  -> <<3, 60, 250>>
              [] i - 1 = 4  -> <<4, thumb_tip[1], thumb_tip[2]>>
              [] i - 1 = 6  -> <<6, x8, y8 + pip_dy>>
              [] i - 1 = 8  -> <<8, x8, y8>>
              [] i - 1 = 10 -> <<10, 120, 150>>
              [] i - 1 = 12 -> <<12, 120, y12>>
              [] i - 1 = 14 -> <<14, 140, 150>>
              [] i - 1 = 16 -> <<16, 140, y16>>
              [] i - 1 = 18 -> <<18, 160, 150>>
              [] i - 1 = 20 -> <<20, 160, y20>>
              [] OTHER      -> <<i - 1, 100, 300>>]

ThumbTips    == {<<40, 220>>, <<80, 270>>}     \* beyond / inside the joint
IndexOffsets == {<<10, 10>>, <<60, 0>>}        \* closer / farther than 40
PipDys       == {30, -30}                      \* index tip above / below
TipYs        == {100, 200}                     \* tip above / below y = 150

\* every finger-state vector with and without the pinch distance
RegularFrames ==
    {HandFrame(t, o, d, a, b, c) :
        t \in ThumbTips, o \in IndexOffsets, d \in PipDys,
        a \in TipYs, b \in TipYs, c \in TipYs}

\* the comparisons' boundary cases: distance exactly 40, a tip level with
\* its joint, the thumb tip as far from the wrist as its joint
BoundaryFrames ==
    {HandFrame(<<40, 220>>, <<40, 0>>, 0, 150, 150, 150),
     HandFrame(<<60, 250>>, <<40, 0>>, 30, 200, 200, 200)}

\* lists with fewer than 21 landmarks
ShortFrames ==
    {<<>>, SubSeq(HandFrame(<<40, 220>>, <<10, 10>>, 30, 200, 200, 200),
                  1, NumLandmarks - 1)}

AllFrames == RegularFrames \cup BoundaryFrames \cup ShortFrames

---------------------------------------------------------------------------
(* The engine as a state machine: one action per method call *)

Eng == [canvas |-> canvas, undo_stack |-> undo_stack,
        redo_stack |-> redo_stack, ret |-> ret]

SetEngine(e, name) ==
    /\ canvas' = e.canvas
    /\ undo_stack' = e.undo_stack
    /\ redo_stack' = e.redo_stack
    /\ ret' = e.ret
    /\ call' = name

Rec == [gesture_history |-> gesture_history,
        current_gesture |-> current_gesture, ret |-> rec_ret]

SetRecognizer(r) ==
    /\ gesture_history' = r.gesture_history
    /\ current_gesture' = r.current_gesture
    /\ rec_ret' = r.ret

\* GestureRecognizer.__init__
RecognizerInit ==
    /\ gesture_history = <<>>
    /\ current_gesture = "none"
    /\ landmarks = <<>>
    /\ rec_ret = None
    /\ frames_seen = 0
    /\ set_order = <<>>
    /\ set_order2 = <<>>
    /\ feed = <<>>
    /\ out1 = <<>>
    /\ rec2 = [gesture_history |-> <<>>, current_gesture |-> "none",
               ret |-> None]
    /\ out2 = <<>>

\* a OneEuroFilter()
FilterInit ==
    /\ euro = OneEuroFilter_init(Scale \div 2, (5 * Scale) \div 1000, Scale)
    /\ euro_out = None
    /\ euro_dt = None
    /\ euro_calls = 0
    /\ step_input = None
    /\ step_prev = None

\* self.smoothers = {}
SmootherInit ==
    /\ smoothers = <<>>
    /\ sm_call = "none"
    /\ sm_arg = None
    /\ sm_ret = None
    /\ sm_log = <<>>
    /\ sm_calls = 0

\* DrawingEngine.__init__: the canvas buffer and its first snapshot
RefInit ==
    /\ heap = [i \in {1, 2} |-> BlankCanvas]
    /\ canvas_ref = 1
    /\ undo_refs = <<2>>
    /\ redo_refs = <<>>
    /\ held = <<>>

ScenarioInit ==
    /\ pc = "idle"
    /\ strokes = 0
    /\ undos = 0
    /\ redos = 0
    /\ saved_canvas = None
    /\ final_canvas = None
    /\ cleared_canvas = None
    /\ segments = 0

\* what a thread sees of the application: its flags, the lock, the handed-
\* over frame, every thread's position and local frame
AppInit ==
    [running |-> FALSE, camera_active |-> FALSE, current_frame |-> None,
     thread_lock |-> "free",
     video_thread |-> "none",     \* process_video: where the thread is
     frame |-> None,              \* process_video's local frame
     main_thread |-> "idle",      \* the handler the main thread is in
     display_frame |-> None,      \* update_display's local frame
     shown |-> None,              \* the frame on the video label
     frames_read |-> 0, starts |-> 0, clicks |-> 0,
     cross_writes |-> 0,          \* engine calls of the main thread made
                                  \* while the video thread was alive
     stopped_at |-> "none",       \* where the video thread was when
                                  \* running was last cleared
     begun_after_stop |-> 0]      \* frames begun with running cleared

RecorderInit ==
    [recording |-> FALSE, recording_paused |-> FALSE, recorded_frames |-> 0,
     after_queue |-> 0, last_op |-> "none"]

\* neither thread is inside an engine method
\* the camera as __init__ leaves it: no capture, no thread, nothing running
CamInit ==
    [running |-> FALSE, camera_active |-> FALSE,
     cap |-> "none",
     video_thread |-> 0,         \* self.video_thread: 0 is None, else the
                                 \* index of the thread in threads
     threads |-> <<>>,           \* where each process_video thread is
     main_thread |-> "idle",
     switching |-> FALSE,        \* stop_camera() was called by switch_camera()
     calls |-> 0, loops |-> 0]

RaceInit ==
    [video_thread |-> "idle",  \* where the video thread is in save_state()
     copy |-> None,            \* the canvas copy save_state() has made
     main_thread |-> "idle",   \* where the main thread is in undo() / redo()
     popped |-> None,          \* the snapshot undo() / redo() has popped
     ret |-> None,             \* what the last undo() / redo() returned
     presses |-> 0,            \* undo and redo button presses
     sealed |-> FALSE]         \* a save_state() has completed and no
                               \* undo() has begun since

\* no frame dispatched yet
WatchInit ==
    [frames |-> 0,
     trace |-> <<>>,          \* the last frame's trace
     prev_before |-> None,    \* prev_draw_point before the last frame
     tips_before |-> <<>>,    \* the points the hands of the frame before
                              \* the last left behind
     stroke_run |-> 0,        \* consecutive frames, up to the last, with
                              \* one hand labelled draw or erase
     stroke_saves |-> 0,      \* save_state calls of the dispatcher in them
     draw_run |-> 0,          \* consecutive frames, up to the last, with
                              \* two hands and the first labelled draw
     hold_run |-> 0,          \* consecutive frames, up to the last and
                              \* from the first hand's first pinch frame
                              \* on, with the first of two hands labelled
                              \* pinch and the second not
     hold_advances |-> 0,     \* advances of current_color_index in them
     presses |-> 0,           \* presses of the shape and undo buttons
     fresh |-> FALSE,         \* a shape tool was picked and no frame
                              \* labelled navigate came since
     canvas_before |-> None]  \* the canvas before the last frame

\* AirSigGUI.__init__, before any frame came in
GuiInit == gui = AirSigGUI_init

\* every object but the engine's canvas and stacks and the GUI's fields
InitOthers ==
    /\ ret = None
    /\ call = "__init__"
    /\ paints = 0
    /\ saves = 0
    /\ pt_missing = FALSE
    /\ frame_in = None
    /\ frame_out = None
    /\ ScenarioInit
    /\ RecognizerInit
    /\ FilterInit
    /\ SmootherInit
    /\ RefInit
    /\ hands_data = <<>>
    /\ pinch_run = 0
    /\ run_advances = 0
    /\ line_args = None
    /\ line_canvas = None
    /\ watch = WatchInit
    /\ load_arg = None
    /\ load_ret = None
    /\ load_pre = None
    /\ app = AppInit
    /\ recorder = RecorderInit
    /\ race = RaceInit
    /\ cam = CamInit

InitObjects ==
    /\ canvas = DrawingEngine_init.canvas
    /\ undo_stack = DrawingEngine_init.undo_stack
    /\ redo_stack = DrawingEngine_init.redo_stack
    /\ GuiInit
    /\ InitOthers

\* the program: every object lives in the one interpreter process
Init ==
    /\ InitObjects
    /\ same_process = TRUE

\* the second recogniser is in this process or in another run of the
\* program
InitPair ==
    /\ InitObjects
    /\ same_process \in BOOLEAN

\* counted: the call draws on the save budget of the run
SaveStateCall(counted) ==
    /\ counted => saves < MaxSaves
    /\ SetEngine(save_state(Eng), "save_state")
    /\ saves' = IF counted THEN saves + 1 ELSE saves
    /\ UNCHANGED <<paints, pt_missing, overlay_vars, scenario_vars,
                   rest_vars>>

UndoCall ==
    /\ SetEngine(undo(Eng), "undo")
    /\ UNCHANGED <<budget_vars, overlay_vars, scenario_vars, rest_vars>>

RedoCall ==
    /\ SetEngine(redo(Eng), "redo")
    /\ UNCHANGED <<budget_vars, overlay_vars, scenario_vars, rest_vars>>

ClearCall ==
    /\ saves < MaxSaves
    /\ SetEngine(clear(Eng), "clear")
    /\ saves' = saves + 1
    /\ UNCHANGED <<paints, pt_missing, overlay_vars, scenario_vars,
                   rest_vars>>

DrawLineCall(points, colors, thicknesses) ==
    /\ paints < MaxPaints
    /\ \E pt1 \in points, pt2 \in points, color \in colors,
          thickness \in thicknesses :
          /\ SetEngine(draw_line(Eng, pt1, pt2, color, thickness),
                       "draw_line")
          /\ pt_missing' = (pt1 = None \/ pt2 = None)
    /\ paints' = paints + 1
    /\ UNCHANGED <<saves, overlay_vars, scenario_vars, rest_vars>>

EraseCall ==
    /\ paints < MaxPaints
    /\ \E center \in MaybePoint, radius \in Radii :
          /\ SetEngine(erase(Eng, center, radius), "erase")
          /\ pt_missing' = (center = None)
    /\ paints' = paints + 1
    /\ UNCHANGED <<saves, overlay_vars, scenario_vars, rest_vars>>

OverlayCall ==
    /\ \E frame \in Frames :
          /\ frame_in' = frame
          /\ frame_out' = overlay_on_frame(Eng, frame)
    /\ call' = "overlay_on_frame"
    /\ UNCHANGED <<canvas, undo_stack, redo_stack, ret, budget_vars,
                   scenario_vars, rest_vars>>

(* Any sequence of engine calls, with bounded numbers of pushes and paints *)
Next ==
    \/ SaveStateCall(TRUE)
    \/ UndoCall
    \/ RedoCall
    \/ ClearCall
    \/ DrawLineCall(MaybePoint, BrushColors, Thicknesses)
    \/ EraseCall

Spec == Init /\ [][Next]_vars

(* Any number of save_state, undo and redo calls around paints of one      *)
(* fixed stroke: the stacks fill up to their capacity                      *)
NextCap ==
    \/ SaveStateCall(FALSE)
    \/ UndoCall
    \/ RedoCall
    \/ DrawLineCall({<<0, 0>>}, {Red}, {1})

SpecCap == Init /\ [][NextCap]_vars

(* Painting and compositing *)
NextOverlay ==
    \/ DrawLineCall(MaybePoint, AllColors, Thicknesses)
    \/ EraseCall
    \/ OverlayCall

SpecOverlay == Init /\ [][NextOverlay]_vars

---------------------------------------------------------------------------
(* The stroke scenario: a caller that starts every stroke with             *)
(* save_state(), paints it with draw_line / erase calls, and then either   *)
(* undoes all strokes and redoes them, or clears the canvas and undoes     *)
(* the clear                                                               *)

ScenarioSave ==
    /\ pc \in {"idle", "stroke"}
    /\ strokes < MaxStrokes
    /\ SetEngine(save_state(Eng), "save_state")
    /\ saved_canvas' = canvas
    /\ strokes' = strokes + 1
    /\ segments' = 0
    /\ pc' = "saved"
    /\ UNCHANGED <<undos, redos, final_canvas, cleared_canvas, budget_vars,
                   overlay_vars, rest_vars>>

ScenarioPaint ==
    /\ pc \in {"saved", "stroke"}
    /\ segments < MaxSegments
    /\ \/ \E pt1 \in PointInputs, pt2 \in PointInputs, color \in BrushColors,
             thickness \in Thicknesses :
             SetEngine(draw_line(Eng, pt1, pt2, color, thickness),
                       "draw_line")
       \/ \E center \in PointInputs, radius \in Radii :
             SetEngine(erase(Eng, center, radius), "erase")
    /\ segments' = segments + 1
    /\ pc' = "stroke"
    /\ UNCHANGED <<strokes, undos, redos, saved_canvas, final_canvas,
                   cleared_canvas, budget_vars, overlay_vars, rest_vars>>

ScenarioUndo ==
    /\ \/ pc = "stroke" /\ final_canvas' = canvas
       \/ pc = "undoing" /\ undos < strokes /\ UNCHANGED final_canvas
    /\ SetEngine(undo(Eng), "undo")
    /\ undos' = undos + 1
    /\ pc' = "undoing"
    /\ UNCHANGED <<strokes, redos, saved_canvas, cleared_canvas, segments,
                   budget_vars, overlay_vars, rest_vars>>

ScenarioRedo ==
    /\ \/ pc = "undoing" /\ undos = strokes
       \/ pc = "redoing" /\ redos < strokes
    /\ SetEngine(redo(Eng), "redo")
    /\ redos' = redos + 1
    /\ pc' = "redoing"
    /\ UNCHANGED <<strokes, undos, saved_canvas, final_canvas, cleared_canvas,
                   segments, budget_vars, overlay_vars, rest_vars>>

ScenarioClear ==
    /\ pc \in {"idle", "stroke"}
    /\ cleared_canvas' = canvas
    /\ SetEngine(clear(Eng), "clear")
    /\ pc' = "cleared"
    /\ UNCHANGED <<strokes, undos, redos, saved_canvas, final_canvas,
                   segments, budget_vars, overlay_vars, rest_vars>>

ScenarioClearUndo ==
    /\ pc = "cleared"
    /\ SetEngine(undo(Eng), "undo")
    /\ pc' = "clear_undone"
    /\ UNCHANGED <<strokes, undos, redos, saved_canvas, final_canvas,
                   cleared_canvas, segments, budget_vars, overlay_vars,
                   rest_vars>>

NextStrokes ==
    \/ ScenarioSave
    \/ ScenarioPaint
    \/ ScenarioUndo
    \/ ScenarioRedo
    \/ ScenarioClear
    \/ ScenarioClearUndo

SpecStrokes == Init /\ [][NextStrokes]_vars

---------------------------------------------------------------------------
(* The recogniser as a state machine *)

\* counted: the call draws on the frame budget of the run
RecognizeCall(frames, counted) ==
    /\ counted => frames_seen < MaxFrames
    /\ \E lms \in frames :
          /\ landmarks' = lms
          /\ \E o \in Recognized(Rec, lms, set_order) :
                /\ SetRecognizer(o.rec)
                /\ set_order' = o.order
    /\ frames_seen' = IF counted THEN frames_seen + 1 ELSE frames_seen
    /\ UNCHANGED <<engine_vars, budget_vars, overlay_vars, scenario_vars,
                   pair_vars, same_process, set_order2, filter_vars,
                   smoother_vars,
                   ref_vars, gui_vars, apart_vars>>

NextClassify == RecognizeCall(AllFrames, TRUE)

SpecClassify == Init /\ [][NextClassify]_vars

\* the landmark lists of the vote: a pinch, an open palm, a drawing hand
\* and a list that is too short
VoteFrames ==
    {HandFrame(<<40, 220>>, <<10, 10>>, 30, 200, 200, 200),
     HandFrame(<<40, 220>>, <<10, 10>>, 30, 100, 100, 100),
     HandFrame(<<40, 220>>, <<60, 0>>, 30, 200, 200, 200),
     SubSeq(HandFrame(<<40, 220>>, <<10, 10>>, 30, 200, 200, 200),
            1, NumLandmarks - 1)}

\* the first recogniser is called with one more landmark list
FeedCall(max) ==
    /\ Len(feed) < max
    /\ \E lms \in VoteFrames :
          /\ landmarks' = lms
          /\ feed' = Append(feed, lms)
          /\ \E o \in Recognized(Rec, lms, set_order) :
                /\ SetRecognizer(o.rec)
                /\ set_order' = o.order
                /\ out1' = Append(out1, o.rec.ret[1])
    /\ UNCHANGED <<engine_vars, budget_vars, overlay_vars, scenario_vars,
                   frames_seen, rec2, out2, same_process, set_order2,
                   filter_vars, smoother_vars,
                   ref_vars, gui_vars, apart_vars>>

\* the second recogniser is called with the next landmark list of those
\* the first one was called with
SecondCall ==
    /\ Len(out2) < Len(feed)
    /\ \E o \in Recognized(rec2, feed[Len(out2) + 1],
                            IF same_process THEN set_order ELSE set_order2) :
          /\ rec2' = o.rec
          /\ IF same_process
             THEN set_order' = o.order /\ UNCHANGED set_order2
             ELSE set_order2' = o.order /\ UNCHANGED set_order
          /\ out2' = Append(out2, o.rec.ret[1])
    /\ UNCHANGED <<engine_vars, budget_vars, overlay_vars, scenario_vars,
                   recognizer_vars, feed, out1, same_process, filter_vars,
                   smoother_vars,
                   ref_vars, gui_vars, apart_vars>>

(* One recogniser, called often enough to fill its history *)
NextVote == FeedCall(MaxFeed)

SpecVote == Init /\ [][NextVote]_vars

(* Two recognisers in one process, called with the same landmark lists *)
NextPair ==
    \/ FeedCall(MaxPairFeed)
    \/ SecondCall

SpecPair == InitPair /\ [][NextPair]_vars

(* Two runs of the program on frames with two hands: the first hand shows  *)
(* the same in both runs, the second hand may show something else          *)

\* hands the rules classify as pinch, palm_open and draw
TwinHands ==
    {HandFrame(<<40, 220>>, <<10, 10>>, 30, 200, 200, 200),
     HandFrame(<<40, 220>>, <<10, 10>>, 30, 100, 100, 100),
     HandFrame(<<40, 220>>, <<60, 0>>, 30, 200, 200, 200)}

\* one frame in each run: process_gestures calls the one recogniser of the
\* GUI for hand 0 and then for hand 1; out1 and out2 collect the labels
\* hand 0 got in the two runs, feed what hand 0 showed
TwinFrame ==
    /\ Len(feed) < MaxTwin
    /\ \E hand0 \in TwinHands, hand1 \in TwinHands, other1 \in TwinHands :
       \E a0 \in Recognized(Rec, hand0, set_order) :
       \E a1 \in Recognized(a0.rec, hand1, a0.order) :
       \E b0 \in Recognized(rec2, hand0, a1.order) :
       \E b1 \in Recognized(b0.rec, other1, b0.order) :
          /\ landmarks' = hand1
          /\ feed' = Append(feed, hand0)
          /\ SetRecognizer(a1.rec)
          /\ rec2' = b1.rec
          /\ set_order' = b1.order
          /\ out1' = Append(out1, a0.rec.ret[1])
          /\ out2' = Append(out2, b0.rec.ret[1])
    /\ UNCHANGED <<engine_vars, budget_vars, overlay_vars, scenario_vars,
                   frames_seen, same_process, set_order2, filter_vars,
                   smoother_vars, ref_vars, gui_vars, apart_vars>>

NextTwin == TwinFrame

SpecTwin == Init /\ [][NextTwin]_vars

---------------------------------------------------------------------------
(* The filter and the smoother as state machines *)

\* values fed to a filter, in pixels
FilterValues == {100, 102, 120}
\* timestamps: equal ones, ones a tick (half a millisecond) apart, one
\* a frame later
Times == {0, 1, 3, 70}

FilterCall ==
    /\ euro_calls < MaxFilterCalls
    /\ \E x \in FilterValues, t \in Times :
          LET r == OneEuroFilter_call(euro, x * Scale, t)
          IN  /\ euro' = r.f
              /\ euro_out' = Some(r.out)
              /\ euro_dt' = r.dt
    /\ euro_calls' = euro_calls + 1
    /\ UNCHANGED <<step_input, step_prev>>
    /\ UNCHANGED <<engine_vars, budget_vars, overlay_vars, scenario_vars,
                   recognizer_vars, process_vars, pair_vars, smoother_vars,
                   ref_vars, gui_vars, apart_vars>>

NextFilter == FilterCall

SpecFilter == Init /\ [][NextFilter]_vars

(* One draw_line call on a blank canvas *)

LinePoints == (0 .. LineGrid) \X (0 .. LineGrid)
LineThicknesses == {1, 2, 3}

\* a DrawingEngine whose canvas covers LinePoints
LineEngine ==
    [canvas |-> [p \in LinePoints |-> White],
     undo_stack |-> <<[p \in LinePoints |-> White]>>,
     redo_stack |-> <<>>, ret |-> None]

\* the one call of a run
LineCall ==
    /\ line_args = None
    /\ \E pt1 \in LinePoints, pt2 \in LinePoints,
          thickness \in LineThicknesses :
          /\ line_args' = <<pt1, pt2, thickness>>
          /\ line_canvas' =
                draw_line(LineEngine, pt1, pt2, Red, thickness).canvas
    /\ UNCHANGED <<engine_vars, budget_vars, overlay_vars, scenario_vars,
                   recognizer_vars, process_vars, pair_vars, filter_vars,
                   smoother_vars, ref_vars, gui_vars, load_vars, watch,
                   thread_vars>>

NextLine == LineCall

SpecLine == Init /\ [][NextLine]_vars

(* A step input: one value, then a constant at increasing timestamps *)

\* values of a step, in thousandths of a pixel
StepValues == {100 * Scale, 100 * Scale + 5, (993 * Scale) \div 10,
               120 * Scale}

\* time between two calls, in ticks: half a millisecond, a frame, a tenth
\* of a second
StepDts == {1, 71, 200}

\* the first call, with a; the constant b is fed from the next call on
StepStart ==
    /\ euro_calls = 0
    /\ \E a \in StepValues, b \in StepValues :
          LET r == OneEuroFilter_call(euro, a, 0)
          IN  /\ euro' = r.f
              /\ euro_out' = Some(r.out)
              /\ euro_dt' = r.dt
              /\ step_input' = Some(b)
              /\ step_prev' = None
    /\ euro_calls' = 1
    /\ UNCHANGED <<engine_vars, budget_vars, overlay_vars, scenario_vars,
                   recognizer_vars, process_vars, pair_vars, smoother_vars,
                   ref_vars, gui_vars, apart_vars>>

\* a later call, with b, at a later timestamp
StepFeed ==
    /\ step_input # None
    /\ euro_calls <= MaxStep
    /\ \E d \in StepDts :
          LET r == OneEuroFilter_call(euro, Val(step_input),
                                     Val(euro.t_prev) + d)
          IN  /\ euro' = r.f
              /\ euro_out' = Some(r.out)
              /\ euro_dt' = r.dt
              /\ step_prev' = euro_out
    /\ euro_calls' = euro_calls + 1
    /\ UNCHANGED <<engine_vars, budget_vars, overlay_vars, scenario_vars,
                   recognizer_vars, process_vars, pair_vars, smoother_vars,
                   ref_vars, gui_vars, apart_vars, step_input>>

NextStep ==
    \/ StepStart
    \/ StepFeed

SpecStep == Init /\ [][NextStep]_vars

\* (jitter_threshold, stabilization) as on_stabilization_change pairs them, and
\* the constructor's default threshold with each level
SmootherConfigs ==
    {<<3, "low">>, <<5, "medium">>, <<8, "high">>, <<5, "high">>}

\* a point, one within every jitter threshold of it, one 4 pixels away,
\* one far away
SmoothPoints == {<<100, 100>>, <<102, 101>>, <<104, 100>>, <<120, 90>>}

\* clock readings of the smooth() calls: a frame apart, or (stalled or
\* stepped-back clock) equal or earlier
SmoothTimes == {0, 1, 70}

SetSmoother(idx, s, name) ==
    /\ smoothers' = [i \in DOMAIN smoothers \cup {idx} |->
                        IF i = idx THEN s ELSE smoothers[i]]
    /\ sm_call' = name
    /\ sm_ret' = s.ret

\* self.smoothers[idx] = PointSmoother(jitter_threshold=..., stabilization=...)
SmootherNew ==
    /\ 0 \notin DOMAIN smoothers
    /\ \E cfg \in SmootherConfigs :
          SetSmoother(0, PointSmoother_init(cfg[1], cfg[2]), "__init__")
    /\ sm_log' = <<>>
    /\ UNCHANGED <<engine_vars, budget_vars, overlay_vars, scenario_vars,
                   recognizer_vars, process_vars, pair_vars, filter_vars,
                   sm_arg, sm_calls,
                   ref_vars, gui_vars, apart_vars>>

SmoothCall ==
    /\ 0 \in DOMAIN smoothers
    /\ sm_calls < MaxSmooth
    /\ \E point \in SmoothPoints \cup {None}, tx \in SmoothTimes :
       \E ty \in {tx, tx + 1} :
          LET s == smooth(smoothers[0], point, tx, ty)
          IN  /\ SetSmoother(0, s, "smooth")
              /\ sm_arg' = point
              /\ sm_log' = Append(sm_log, <<point, s.ret>>)
    /\ sm_calls' = sm_calls + 1
    /\ UNCHANGED <<engine_vars, budget_vars, overlay_vars, scenario_vars,
                   recognizer_vars, process_vars, pair_vars, filter_vars,
                   ref_vars, gui_vars, apart_vars>>

ResetCall ==
    /\ 0 \in DOMAIN smoothers
    /\ SetSmoother(0, reset(smoothers[0]), "reset")
    /\ UNCHANGED <<engine_vars, budget_vars, overlay_vars, scenario_vars,
                   recognizer_vars, process_vars, pair_vars, filter_vars,
                   sm_arg, sm_log, sm_calls,
                   ref_vars, gui_vars, apart_vars>>

NextSmooth ==
    \/ SmootherNew
    \/ SmoothCall
    \/ ResetCall

SpecSmooth == Init /\ [][NextSmooth]_vars

---------------------------------------------------------------------------
(* The engine and the callers of get_canvas(), buffers as objects *)

Mem == [heap |-> heap, canvas |-> canvas_ref, undo_stack |-> undo_refs,
        redo_stack |-> redo_refs, held |-> held]

SetMem(m) ==
    /\ heap' = m.heap
    /\ canvas_ref' = m.canvas
    /\ undo_refs' = m.undo_stack
    /\ redo_refs' = m.redo_stack
    /\ held' = m.held

RefSaveStateCall ==
    /\ saves < MaxSaves
    /\ SetMem(save_state_ref(Mem))
    /\ SetEngine(save_state(Eng), "save_state")
    /\ saves' = saves + 1
    /\ UNCHANGED <<paints, pt_missing>>

RefUndoCall ==
    /\ SetMem(undo_ref(Mem))
    /\ SetEngine(undo(Eng), "undo")
    /\ UNCHANGED budget_vars

RefRedoCall ==
    /\ SetMem(redo_ref(Mem))
    /\ SetEngine(redo(Eng), "redo")
    /\ UNCHANGED budget_vars

RefClearCall ==
    /\ saves < MaxSaves
    /\ SetMem(clear_ref(Mem))
    /\ SetEngine(clear(Eng), "clear")
    /\ saves' = saves + 1
    /\ UNCHANGED <<paints, pt_missing>>

RefDrawLineCall ==
    /\ paints < MaxPaints
    /\ SetMem(draw_line_ref(Mem, <<0, 0>>, <<0, 0>>, Red, 1))
    /\ SetEngine(draw_line(Eng, <<0, 0>>, <<0, 0>>, Red, 1), "draw_line")
    /\ pt_missing' = FALSE
    /\ paints' = paints + 1
    /\ UNCHANGED saves

RefEraseCall ==
    /\ paints < MaxPaints
    /\ SetMem(erase_ref(Mem, <<0, 0>>, 0))
    /\ SetEngine(erase(Eng, <<0, 0>>, 0), "erase")
    /\ pt_missing' = FALSE
    /\ paints' = paints + 1
    /\ UNCHANGED saves

\* canvas = self.drawing_engine.get_canvas()
RefGetCanvasCall ==
    /\ Len(held) < MaxHeld
    /\ SetMem(get_canvas_ref(Mem))
    /\ call' = "get_canvas"
    /\ UNCHANGED <<canvas, undo_stack, redo_stack, ret, budget_vars>>

\* a caller writes a pixel of a buffer it got from get_canvas()
CallerWrite ==
    /\ \E b \in Range(held) :
          /\ heap[b][<<0, 0>>] # Blue
          /\ heap' = [heap EXCEPT ![b][<<0, 0>>] = Blue]
    /\ call' = "caller_write"
    /\ UNCHANGED <<canvas, undo_stack, redo_stack, ret, budget_vars,
                   canvas_ref, undo_refs, redo_refs, held>>

NextRef ==
    /\ \/ RefSaveStateCall
       \/ RefUndoCall
       \/ RefRedoCall
       \/ RefClearCall
       \/ RefDrawLineCall
       \/ RefEraseCall
       \/ RefGetCanvasCall
       \/ CallerWrite
    /\ UNCHANGED <<overlay_vars, scenario_vars, recognizer_vars,
                   process_vars, pair_vars, filter_vars, smoother_vars,
                   gui_vars, apart_vars>>

SpecRef == Init /\ [][NextRef]_vars

\* the second navigate frame of the shape tool, seen from the engine
RefShapeCall ==
    /\ paints < MaxPaints
    /\ \E shape_mode \in ShapeModes, start \in {<<0, 0>>}, point \in Pixels :
          /\ SetMem(shape_ref(Mem, shape_mode, start, point, Blue, 1))
          /\ canvas' = [p \in DOMAIN canvas |->
                           IF ShapePainted(p, shape_mode, start, point, 1)
                           THEN Blue ELSE canvas[p]]
    /\ call' = "shape"
    /\ paints' = paints + 1
    /\ UNCHANGED <<undo_stack, redo_stack, ret, saves, pt_missing,
                   overlay_vars>>

\* overlay_on_frame(frame) reads the canvas and returns a new array
RefOverlayCall ==
    /\ \E frame \in {[p \in Pixels |-> Black]} :
          /\ frame_in' = frame
          /\ frame_out' = overlay_on_frame(Eng, frame)
    /\ call' = "overlay_on_frame"
    /\ UNCHANGED <<canvas, undo_stack, redo_stack, ret, budget_vars,
                   ref_vars>>

(* The engine's calls and the shape tool's, with the buffers as objects *)
NextAlias ==
    /\ \/ /\ \/ RefSaveStateCall
             \/ RefUndoCall
             \/ RefRedoCall
             \/ RefClearCall
             \/ RefDrawLineCall
             \/ RefEraseCall
          /\ UNCHANGED overlay_vars
       \/ RefShapeCall
       \/ RefOverlayCall
    /\ UNCHANGED <<scenario_vars, recognizer_vars, process_vars, pair_vars,
                   filter_vars, smoother_vars, gui_vars, apart_vars>>

SpecAlias == Init /\ [][NextAlias]_vars

---------------------------------------------------------------------------
(* The gesture dispatcher as a state machine *)

\* what process_gestures works on: the GUI's fields and the objects they
\* refer to
World ==
    [gui |-> gui, drawing_engine |-> Eng, engine_call |-> call,
     gesture_recognizer |-> Rec, set_order |-> set_order,
     smoothers |-> smoothers,
     calls |-> <<>>,       \* engine calls made for the hand being handled
     trace |-> <<>>]       \* per hand handled in the frame: its label, its
                           \* engine calls, the point it left behind

SetWorld(w) ==
    /\ gui' = w.gui
    /\ SetEngine(w.drawing_engine, w.engine_call)
    /\ SetRecognizer(w.gesture_recognizer)
    /\ set_order' = w.set_order
    /\ smoothers' = w.smoothers

Hand(lms) == [landmarks |-> lms, hand_type |-> "Right"]

\* what the detector hands over for a frame: no hand, one pinching hand,
\* one open palm (index tip at the same pixel in both)
PinchInputs ==
    {<<>>,
     <<Hand(HandFrame(<<40, 220>>, <<10, 10>>, 30, 200, 200, 200))>>,
     <<Hand(HandFrame(<<40, 220>>, <<10, 10>>, 30, 100, 100, 100))>>}

\* clock reading of a frame's smooth() call, in ticks; with PinchInputs
\* only the first call gets as far as reading the clock
FrameTimes == {TicksPerSecond \div 30}

\* the video loop calls process_gestures(hands_data, frame) for a frame;
\* a pinch is followed for MaxHold frames
ProcessGesturesCall ==
    /\ \E hands \in PinchInputs, tx \in FrameTimes :
       \E ty \in {tx, tx + 1} :
       \E w \in process_gestures(World, hands, tx, ty) :
          LET pinched == /\ Len(hands) = 1
                         /\ w.gesture_recognizer.ret[1] = "pinch"
              advanced == w.gui.current_color_index # gui.current_color_index
          IN  /\ pinched => pinch_run < MaxHold
              /\ SetWorld(w)
              /\ hands_data' = hands
              /\ landmarks' = IF hands = <<>> THEN landmarks
                              ELSE Last(hands).landmarks
              /\ pinch_run' = IF pinched THEN pinch_run + 1 ELSE 0
              /\ run_advances' =
                    IF ~pinched THEN 0
                    ELSE IF advanced THEN run_advances + 1
                    ELSE run_advances
    /\ UNCHANGED <<budget_vars, overlay_vars, scenario_vars, frames_seen,
                   same_process, set_order2, pair_vars, filter_vars,
                   sm_call, sm_arg, sm_ret, sm_log, sm_calls, ref_vars,
                   apart_vars>>

NextPinch == ProcessGesturesCall

SpecPinch == Init /\ [][NextPinch]_vars

(* The dispatcher's frames with one hand and with two hands *)

\* the index tip at the same pixel whatever the hand shows
DrawHand  == Hand(HandFrame(<<40, 220>>, <<60, 0>>, 30, 200, 200, 200))
EraseHand == Hand(HandFrame(<<80, 270>>, <<20, -50>>, 30, 100, 100, 100))
PalmHand  == Hand(HandFrame(<<40, 220>>, <<60, 0>>, 30, 100, 100, 100))
FistHand  == Hand(HandFrame(<<80, 270>>, <<20, -50>>, -30, 200, 200, 200))
PinchHand == Hand(HandFrame(<<90, 210>>, <<10, 10>>, 30, 200, 200, 200))
\* a second hand, elsewhere in the frame
DrawHand2 == Hand(HandFrame(<<40, 220>>, <<64, 0>>, 30, 200, 200, 200))
PalmHand2 == Hand(HandFrame(<<40, 220>>, <<64, 0>>, 30, 100, 100, 100))

OneHandInputs == {<<>>, <<DrawHand>>, <<EraseHand>>, <<PalmHand>>,
                  <<FistHand>>}

TwoHandInputs == {<<DrawHand, PalmHand2>>, <<DrawHand, DrawHand2>>,
                  <<PinchHand, PalmHand2>>}

\* the save_state calls among a hand's engine calls
Saves(calls) == Count(calls, EngineCall("save_state", None, None))

\* the video loop calls process_gestures(hands_data, frame) for a frame;
\* the run is followed for MaxDispatch frames
FrameCall(inputs) ==
    /\ watch.frames < MaxDispatch
    /\ \E hands \in inputs, tx \in FrameTimes :
       \E ty \in {tx, tx + 1} :
       \E w \in process_gestures(World, hands, tx, ty) :
          LET tr == w.trace
              stroke == /\ Len(hands) = 1
                        /\ tr[1].gesture \in {"draw", "erase"}
              drawing == Len(hands) = 2 /\ tr[1].gesture = "draw"
              \* a hold begins on a frame after which the first hand
              \* was not labelled pinch
              holding == /\ Len(hands) = 2
                         /\ tr[1].gesture = "pinch"
                         /\ tr[2].gesture # "pinch"
                         /\ \/ watch.hold_run > 0
                            \/ watch.trace = <<>>
                            \/ watch.trace[1].gesture # "pinch"
              advances == IF w.gui.current_color_index
                               # gui.current_color_index
                          THEN 1 ELSE 0
          IN  /\ SetWorld(w)
              /\ hands_data' = hands
              /\ landmarks' = IF hands = <<>> THEN landmarks
                              ELSE Last(hands).landmarks
              /\ watch' =
                    [frames |-> watch.frames + 1,
                     trace |-> tr,
                     prev_before |-> gui.prev_draw_point,
                     tips_before |-> [i \in DOMAIN watch.trace |->
                                         watch.trace[i].tip],
                     stroke_run |-> IF stroke THEN watch.stroke_run + 1
                                    ELSE 0,
                     stroke_saves |->
                         IF ~stroke THEN 0
                         ELSE Saves(tr[1].calls)
                              + (IF watch.stroke_run = 0 THEN 0
                                 ELSE watch.stroke_saves),
                     draw_run |-> IF drawing THEN watch.draw_run + 1 ELSE 0,
                     hold_run |-> IF holding THEN watch.hold_run + 1 ELSE 0,
                     hold_advances |->
                         IF ~holding THEN 0
                         ELSE advances + (IF watch.hold_run = 0 THEN 0
                                          ELSE watch.hold_advances),
                     presses |-> watch.presses,
                     fresh |-> IF tr # <<>> /\ tr[1].gesture = "navigate"
                               THEN FALSE ELSE watch.fresh,
                     canvas_before |-> Some(canvas)]
    /\ UNCHANGED <<budget_vars, overlay_vars, scenario_vars, frames_seen,
                   same_process, set_order2, pair_vars, filter_vars,
                   sm_call, sm_arg, sm_ret, sm_log, sm_calls, ref_vars,
                   pinch_run, run_advances, line_vars, load_vars,
                   thread_vars>>

OneHandFrame == FrameCall(OneHandInputs)

NextStroke == OneHandFrame

SpecStroke == Init /\ [][NextStroke]_vars

TwoHandFrame == FrameCall(TwoHandInputs)

NextHands == TwoHandFrame

SpecHands == Init /\ [][NextHands]_vars

---------------------------------------------------------------------------
(* The shape tool, the pause labels and the undo button *)

\* the canvas of the engine the camera start builds, ToolGrid + 1 pixels
\* wide and high
ToolPixels == (0 .. ToolGrid) \X (0 .. ToolGrid)
ToolCanvas == [p \in ToolPixels |-> White]

\* hands whose index tip is on that canvas: two showing index + middle, at
\* (1, 1) and (4, 3), one showing the index at (1, 4), an open palm and a
\* hand with only the middle finger up
NavHand   == Hand(HandFrame(<<61, 1>>, <<-60, 0>>, 30, 100, 200, 200))
NavHand2  == Hand(HandFrame(<<64, 3>>, <<-60, 0>>, 30, 100, 200, 200))
InkHand   == Hand(HandFrame(<<61, 4>>, <<-60, 0>>, 30, 200, 200, 200))
OpenHand  == Hand(HandFrame(<<30, 1>>, <<-29, 0>>, 30, 100, 100, 100))
OtherHand == Hand(HandFrame(<<61, 1>>, <<-60, 0>>, -30, 100, 200, 200))

\* frames for the shape tool, and frames for the labels that pause
ToolInputs == {<<NavHand>>, <<NavHand2>>, <<OpenHand>>}
PauseInputs == {<<>>, <<InkHand>>, <<OpenHand>>, <<OtherHand>>}

\* the camera is started; the brush slider is at 1 px and the smoothing
\* checkbox is off
InitTool ==
    /\ canvas = ToolCanvas
    /\ undo_stack = <<ToolCanvas>>
    /\ redo_stack = <<>>
    /\ gui = [AirSigGUI_init EXCEPT !.brush_size = 1, !.eraser_size = 3,
                                    !.smoothing_enabled = FALSE]
    /\ InitOthers
    /\ same_process = TRUE

ToolFrame == FrameCall(ToolInputs)

\* a press of one of the four shape buttons
SetShapeMode ==
    /\ watch.presses < MaxPress
    /\ \E shape \in ShapeModes :
          /\ gui' = set_shape_mode(gui, shape)
          /\ watch' = [watch EXCEPT !.presses = @ + 1,
                                    !.fresh = gui.shape_mode # Some(shape)]
    /\ UNCHANGED <<engine_vars, budget_vars, overlay_vars, scenario_vars,
                   recognizer_vars, process_vars, pair_vars, filter_vars,
                   smoother_vars, ref_vars, hands_data, pinch_run,
                   run_advances, line_vars, load_vars, thread_vars>>

\* a press of the undo button: undo_action()
UndoAction ==
    /\ watch.presses < MaxPress
    /\ SetEngine(undo(Eng), "undo")
    /\ watch' = [watch EXCEPT !.presses = @ + 1]
    /\ UNCHANGED <<budget_vars, overlay_vars, scenario_vars,
                   recognizer_vars, process_vars, pair_vars, filter_vars,
                   smoother_vars, ref_vars, gui_vars, line_vars, load_vars,
                   thread_vars>>

NextTool ==
    \/ ToolFrame
    \/ SetShapeMode

SpecTool == InitTool /\ [][NextTool]_vars

PauseFrame == FrameCall(PauseInputs)

NextPause ==
    \/ PauseFrame
    \/ UndoAction

SpecPause == InitTool /\ [][NextPause]_vars

---------------------------------------------------------------------------
(* AirSigGUI.load_project *)

\* a numpy array: its shape and its content, by pixel
Array(shape, data) == [ndarray |-> TRUE, shape |-> shape, data |-> data]

\* the engine's canvas as the array it is: one row, Width columns, three
\* channels
ShapeOf(c) == <<1, Cardinality(DOMAIN c), Len(c[<<0, 0>>])>>

\* what pickle.load can return for a project file: something that is no
\* dict, a dict without 'canvas', and dicts whose 'canvas' is an array of
\* the canvas's shape, a wider one, a higher one, one with four channels, a
\* two-dimensional one, or a nested list; brush_size is in the dict or not
ProjectCanvases ==
    {Array(<<1, Width, 3>>, [p \in Pixels |-> Red]),
     Array(<<1, Width + 1, 3>>,
           [p \in {<<x, 0>> : x \in 0 .. Width} |-> Red]),
     Array(<<2, Width, 3>>,
           [p \in (0 .. Width - 1) \X {0, 1} |-> Red]),
     Array(<<1, Width, 4>>, [p \in Pixels |-> <<0, 0, 255, 255>>]),
     Array(<<1, Width>>, [p \in Pixels |-> <<0>>]),
     [ndarray |-> FALSE, shape |-> <<1, Width, 3>>,
      data |-> [p \in Pixels |-> Red]]}

ProjectFiles ==
    {[dict |-> FALSE], [dict |-> TRUE]}
    \cup {[dict |-> TRUE, canvas |-> c, brush_color |-> bc,
           brush_size |-> bs, brush_opacity |-> bo, eraser_size |-> es] :
             c \in ProjectCanvases, bc \in {Some(Blue)},
             bs \in {None, Some(9)},
             bo \in {None, Some(50)}, es \in {Some(30)}}

\* project_data.get(key, default)
dict_get(field, default) == IF field = None THEN default ELSE Val(field)

\* the test in front of the assignment of the canvas
canvas_accepted(w, canvas_data) ==
    canvas_data.ndarray /\ Len(canvas_data.shape) = 3

\* load_project() once a file was chosen and unpickled; the result is the
\* world and the message box shown
load_project(w, project_data) ==
    IF ~project_data.dict \/ "canvas" \notin DOMAIN project_data
    THEN [w |-> w, ret |-> "showerror"]
    ELSE IF ~canvas_accepted(w, project_data.canvas)
    THEN [w |-> w, ret |-> "showerror"]
    ELSE [w |-> [w EXCEPT
                   !.drawing_engine.canvas = project_data.canvas.data,
                   !.engine_call = "load_project",
                   !.gui.brush_color =
                       dict_get(project_data.brush_color, <<0, 0, 255>>),
                   !.gui.brush_size =
                       dict_get(project_data.brush_size, 5),
                   !.gui.brush_opacity =
                       dict_get(project_data.brush_opacity, 100),
                   !.gui.eraser_size =
                       dict_get(project_data.eraser_size, 20),
                   !.gui.project_modified = FALSE],
          ret |-> "showinfo"]

\* the brush sliders of the GUI before a project is loaded
SetBrush ==
    /\ load_ret = None
    /\ \E bs \in {5, 7}, es \in {20, 25}, bo \in {100, 80} :
          gui' = [gui EXCEPT !.brush_size = bs, !.eraser_size = es,
                             !.brush_opacity = bo]
    /\ UNCHANGED <<engine_vars, budget_vars, overlay_vars, scenario_vars,
                   recognizer_vars, process_vars, pair_vars, filter_vars,
                   smoother_vars, ref_vars, hands_data, pinch_run,
                   run_advances, apart_vars>>

\* the one load_project() of a run, with the camera started
LoadProjectCall ==
    /\ load_ret = None
    /\ \E project_data \in ProjectFiles :
          LET r == load_project(World, project_data)
          IN  /\ SetWorld(r.w)
              /\ load_ret' = Returned(r.ret)
              /\ load_arg' = project_data
              /\ load_pre' = [canvas |-> canvas, gui |-> gui]
    /\ UNCHANGED <<budget_vars, overlay_vars, scenario_vars, landmarks,
                   frames_seen, same_process, set_order2, pair_vars,
                   filter_vars, sm_call, sm_arg, sm_ret, sm_log, sm_calls,
                   ref_vars, hands_data, pinch_run, run_advances,
                   line_vars, watch, thread_vars>>

\* strokes painted before the project is loaded
PaintBeforeLoad ==
    /\ load_ret = None
    /\ DrawLineCall(PointInputs, BrushColors, Thicknesses)

NextLoad ==
    \/ SetBrush
    \/ PaintBeforeLoad
    \/ LoadProjectCall

SpecLoad == Init /\ [][NextLoad]_vars

---------------------------------------------------------------------------
(* AirSigGUI: the video thread and the Tk main thread *)

\* threading.Lock.acquire() returns once nobody holds the lock
acquire_ignores_holder(lock) == TRUE

acquire(lock) == lock = "free"

\* while True:
LoopCondition_forever(a) == TRUE

\* while self.running:
LoopCondition(a) == a.running

\* the thread of process_video exists and has not returned
ProducerAlive(a) == a.video_thread \notin {"none", "exited"}

\* if len(self.recorded_frames) <= 18000:
BelowCap_inclusive(r) == r.recorded_frames <= RecordingCap

BelowCap(r) == r.recorded_frames < RecordingCap

\* the recording block of process_video for one frame; a frame that is not
\* stored schedules toggle_recording on the main thread
record_frame(r) ==
    IF r.recording /\ ~r.recording_paused
    THEN IF BelowCap(r)
         THEN [r EXCEPT !.recorded_frames = @ + 1, !.last_op = "frame"]
         ELSE [r EXCEPT !.after_queue = @ + 1, !.last_op = "frame"]
    ELSE [r EXCEPT !.last_op = "frame"]

\* toggle_recording(); saved: a file name was chosen in the dialog
toggle_recording(r, saved) ==
    IF ~r.recording
    THEN [r EXCEPT !.recording = TRUE, !.recording_paused = FALSE,
                   !.recorded_frames = 0, !.last_op = "toggle"]
    ELSE [r EXCEPT !.recording = FALSE, !.recording_paused = FALSE,
                   !.recorded_frames =
                       IF @ > 0 /\ saved THEN 0 ELSE @,
                   !.last_op = "toggle"]

pause_recording(r) ==
    IF r.recording
    THEN [r EXCEPT !.recording_paused = ~@, !.last_op = "pause"]
    ELSE [r EXCEPT !.last_op = "pause"]

\* everything but the threads' and the recorder's state
world_vars == <<engine_vars, budget_vars, overlay_vars, scenario_vars,
                recognizer_vars, process_vars, pair_vars, filter_vars,
                smoother_vars, ref_vars, gui_vars, side_vars>>

\* the objects start_camera creates
StartWorld ==
    [World EXCEPT
        !.drawing_engine = [canvas |-> DrawingEngine_init.canvas,
                            undo_stack |-> DrawingEngine_init.undo_stack,
                            redo_stack |-> DrawingEngine_init.redo_stack,
                            ret |-> None],
        !.engine_call = "__init__",
        !.gesture_recognizer = [gesture_history |-> <<>>,
                                current_gesture |-> "none", ret |-> None],
        !.smoothers = <<>>]

\* what the detector hands over in the threads' runs: no hand, a drawing hand
ThreadHands ==
    {<<>>, <<Hand(HandFrame(<<40, 220>>, <<60, 0>>, 30, 200, 200, 200))>>}

\* start_camera(): the button of a stopped camera
StartCamera ==
    /\ app.main_thread = "idle"
    /\ ~app.camera_active
    /\ app.starts + app.clicks < MaxEvents
    /\ SetWorld(StartWorld)
    /\ app' = [app EXCEPT !.camera_active = TRUE, !.running = TRUE,
                          !.video_thread = "check", !.starts = @ + 1]
    /\ UNCHANGED <<budget_vars, overlay_vars, scenario_vars, landmarks,
                   frames_seen, same_process, set_order2, pair_vars,
                   filter_vars, sm_call, sm_arg, sm_ret, sm_log, sm_calls,
                   ref_vars, hands_data, pinch_run, run_advances,
                   side_vars, recorder, race, cam>>

\* stop_camera() up to the join
StopCamera ==
    /\ app.main_thread = "idle"
    /\ app.camera_active
    /\ app' = [app EXCEPT !.running = FALSE, !.camera_active = FALSE,
                          !.main_thread = "join",
                          !.stopped_at = app.video_thread]
    /\ UNCHANGED <<world_vars, recorder, race, cam>>

\* stop_camera() from the return of video_thread.join() on; a frame takes
\* less than the 2 seconds the join waits
StopCameraJoined ==
    /\ app.main_thread = "join"
    /\ ~ProducerAlive(app)
    /\ app' = [app EXCEPT !.main_thread = "idle"]
    /\ recorder' = IF recorder.recording
                   THEN toggle_recording(recorder, TRUE)
                   ELSE recorder
    /\ UNCHANGED <<world_vars, race, cam>>

\* update_display() up to the lock: it returns at once without a frame
UpdateDisplay ==
    /\ app.main_thread = "idle"
    /\ app.camera_active
    /\ app.current_frame # None
    /\ app' = [app EXCEPT !.main_thread = "display_lock"]
    /\ UNCHANGED <<world_vars, recorder, race, cam>>

\* with self.thread_lock: (update_display)
DisplayAcquire ==
    /\ app.main_thread = "display_lock"
    /\ acquire(app.thread_lock)
    /\ app' = [app EXCEPT !.thread_lock = "main",
                          !.main_thread = "display_copy"]
    /\ UNCHANGED <<world_vars, recorder, race, cam>>

\* frame = self.current_frame.copy()
DisplayCopy ==
    /\ app.main_thread = "display_copy"
    /\ app' = [app EXCEPT !.display_frame = app.current_frame,
                          !.main_thread = "display_unlock"]
    /\ UNCHANGED <<world_vars, recorder, race, cam>>

DisplayRelease ==
    /\ app.main_thread = "display_unlock"
    /\ app' = [app EXCEPT !.thread_lock = "free",
                          !.main_thread = "display_render"]
    /\ UNCHANGED <<world_vars, recorder, race, cam>>

\* the conversion to a PhotoImage and the label's update
DisplayRender ==
    /\ app.main_thread = "display_render"
    /\ app' = [app EXCEPT !.shown = app.display_frame,
                          !.main_thread = "idle"]
    /\ UNCHANGED <<world_vars, recorder, race, cam>>

\* clear_canvas(), undo_action(), redo_action(): the buttons, once
\* start_camera() made an engine
EngineButton ==
    /\ app.main_thread = "idle"
    /\ app.starts > 0
    /\ app.starts + app.clicks < MaxEvents
    /\ \/ SetEngine(clear(Eng), "clear")
       \/ SetEngine(undo(Eng), "undo")
       \/ SetEngine(redo(Eng), "redo")
    /\ app' = [app EXCEPT !.clicks = @ + 1,
                          !.cross_writes =
                              IF ProducerAlive(app) THEN @ + 1 ELSE @]
    /\ UNCHANGED <<budget_vars, overlay_vars, scenario_vars,
                   recognizer_vars, process_vars, pair_vars, filter_vars,
                   smoother_vars, ref_vars, gui_vars, side_vars, recorder, race, cam>>

\* while self.running:
VideoCheck ==
    /\ app.video_thread = "check"
    /\ LoopCondition(app) => app.frames_read < MaxIter
    /\ app' = IF LoopCondition(app)
              THEN [app EXCEPT !.video_thread = "read",
                               !.begun_after_stop =
                                   IF app.running THEN @ ELSE @ + 1]
              ELSE [app EXCEPT !.video_thread = "exited"]
    /\ UNCHANGED <<world_vars, recorder, race, cam>>

\* ret, frame = self.cap.read(); without a frame: sleep and continue
VideoRead ==
    /\ app.video_thread = "read"
    /\ \E ok \in BOOLEAN :
          app' = IF ok
                 THEN [app EXCEPT !.frames_read = @ + 1,
                                  !.frame = Some(app.frames_read + 1),
                                  !.video_thread = "process"]
                 ELSE [app EXCEPT !.video_thread = "check"]
    /\ UNCHANGED <<world_vars, recorder, race, cam>>

\* detection, process_gestures(hands_data, frame) and the overlay
VideoProcess ==
    /\ app.video_thread = "process"
    /\ \E hands \in ThreadHands, tx \in FrameTimes :
       \E ty \in {tx, tx + 1} :
       \E w \in process_gestures(World, hands, tx, ty) :
          /\ SetWorld(w)
          /\ hands_data' = hands
          /\ landmarks' = IF hands = <<>> THEN landmarks
                          ELSE Last(hands).landmarks
    /\ app' = [app EXCEPT !.video_thread = "record"]
    /\ UNCHANGED <<budget_vars, overlay_vars, scenario_vars, frames_seen,
                   same_process, set_order2, pair_vars, filter_vars,
                   sm_call, sm_arg, sm_ret, sm_log, sm_calls, ref_vars,
                   pinch_run, run_advances, side_vars, recorder, race, cam>>

\* the recording block
VideoRecord ==
    /\ app.video_thread = "record"
    /\ recorder' = [record_frame(recorder) EXCEPT !.last_op = "none"]
    /\ app' = [app EXCEPT !.video_thread = "lock"]
    /\ UNCHANGED <<world_vars, race, cam>>

\* with self.thread_lock: (process_video)
VideoAcquire ==
    /\ app.video_thread = "lock"
    /\ acquire(app.thread_lock)
    /\ app' = [app EXCEPT !.thread_lock = "video",
                          !.video_thread = "store"]
    /\ UNCHANGED <<world_vars, recorder, race, cam>>

\* self.current_frame = frame.copy()
VideoStore ==
    /\ app.video_thread = "store"
    /\ app' = [app EXCEPT !.current_frame = app.frame,
                          !.video_thread = "unlock"]
    /\ UNCHANGED <<world_vars, recorder, race, cam>>

\* the end of the with block, time.sleep(0.01) and back to the loop's test
VideoRelease ==
    /\ app.video_thread = "unlock"
    /\ app' = [app EXCEPT !.thread_lock = "free",
                          !.video_thread = "check"]
    /\ UNCHANGED <<world_vars, recorder, race, cam>>

VideoStep ==
    \/ VideoCheck
    \/ VideoRead
    \/ VideoProcess
    \/ VideoRecord
    \/ VideoAcquire
    \/ VideoStore
    \/ VideoRelease

MainStep ==
    \/ StopCameraJoined
    \/ DisplayAcquire
    \/ DisplayCopy
    \/ DisplayRelease
    \/ DisplayRender

NextThreads ==
    \/ StartCamera
    \/ StopCamera
    \/ UpdateDisplay
    \/ EngineButton
    \/ VideoStep
    \/ MainStep

SpecThreads == Init /\ [][NextThreads]_vars

\* each thread that can take a step gets to take it
SpecThreadsFair ==
    Init /\ [][NextThreads]_vars /\ WF_vars(VideoStep) /\ WF_vars(MainStep)

\* the recording block and the recording buttons on their own: a frame
\* comes in, a button is pressed, a scheduled toggle_recording runs
RecordFrame ==
    /\ recorder.after_queue < MaxAfter
    /\ recorder' = record_frame(recorder)
    /\ UNCHANGED <<world_vars, app, race, cam>>

ToggleRecording ==
    /\ \E saved \in BOOLEAN : recorder' = toggle_recording(recorder, saved)
    /\ UNCHANGED <<world_vars, app, race, cam>>

PauseRecording ==
    /\ recorder' = pause_recording(recorder)
    /\ UNCHANGED <<world_vars, app, race, cam>>

\* self.root.after(10, self.toggle_recording) comes due
RunAfter ==
    /\ recorder.after_queue > 0
    /\ \E saved \in BOOLEAN :
          recorder' = [toggle_recording(recorder, saved)
                          EXCEPT !.after_queue = @ - 1]
    /\ UNCHANGED <<world_vars, app, race, cam>>

NextRecord ==
    \/ RecordFrame
    \/ ToggleRecording
    \/ PauseRecording
    \/ RunAfter

SpecRecord == Init /\ [][NextRecord]_vars

---------------------------------------------------------------------------
(* DrawingEngine: save_state() of the video thread and undo() / redo() of *)
(* the main thread, one deque operation or assignment at a time            *)

\* what the steps of this section leave alone besides the engine
race_rest == <<overlay_vars, scenario_vars, recognizer_vars, process_vars,
               pair_vars, filter_vars, smoother_vars, ref_vars, gui_vars,
               side_vars, app, recorder, cam>>

\* the draw branch paints a segment between two frames' points
RacePaint ==
    /\ race.video_thread = "idle"
    /\ paints < MaxPaints
    /\ \E pt \in Pixels :
          SetEngine(draw_line(Eng, pt, pt, Red, 1), "draw_line")
    /\ paints' = paints + 1
    /\ UNCHANGED <<saves, pt_missing, race, race_rest>>

\* save_state(): self.canvas.copy()
SaveCopy ==
    /\ race.video_thread = "idle"
    /\ saves < MaxSaves
    /\ race' = [race EXCEPT !.video_thread = "append",
                            !.copy = Some(canvas)]
    /\ saves' = saves + 1
    /\ UNCHANGED <<engine_vars, paints, pt_missing, race_rest>>

\* save_state(): self.undo_stack.append(<the copy>)
SaveAppend ==
    /\ race.video_thread = "append"
    /\ undo_stack' = deque_append(undo_stack, Val(race.copy), MaxStates)
    /\ race' = [race EXCEPT !.video_thread = "clear", !.copy = None]
    /\ UNCHANGED <<canvas, redo_stack, call, ret, budget_vars, race_rest>>

\* save_state(): self.redo_stack.clear(), and the method returns
SaveClear ==
    /\ race.video_thread = "clear"
    /\ redo_stack' = <<>>
    /\ call' = "save_state"
    /\ race' = [race EXCEPT !.video_thread = "idle", !.sealed = TRUE]
    /\ UNCHANGED <<canvas, undo_stack, ret, budget_vars, race_rest>>

\* undo(): if len(self.undo_stack) > 1
UndoBegin ==
    /\ race.main_thread = "idle"
    /\ race.presses < MaxPress
    /\ race' = [race EXCEPT
                   !.presses = @ + 1,
                   !.sealed = FALSE,
                   !.main_thread = IF Len(undo_stack) > 1 THEN "undo_pop"
                                   ELSE "idle",
                   !.ret = IF Len(undo_stack) > 1 THEN None
                           ELSE Returned(FALSE)]
    /\ call' = "undo"
    /\ UNCHANGED <<canvas, undo_stack, redo_stack, ret, budget_vars,
                   race_rest>>

\* undo(): self.undo_stack.pop(), the argument of the append
UndoPop ==
    /\ race.main_thread = "undo_pop"
    /\ undo_stack' = Front(undo_stack)
    /\ race' = [race EXCEPT !.main_thread = "undo_push",
                            !.popped = Some(Last(undo_stack))]
    /\ UNCHANGED <<canvas, redo_stack, call, ret, budget_vars, race_rest>>

\* undo(): self.redo_stack.append(<the popped snapshot>)
UndoPush ==
    /\ race.main_thread = "undo_push"
    /\ redo_stack' = deque_append(redo_stack, Val(race.popped), MaxStates)
    /\ race' = [race EXCEPT !.main_thread = "undo_canvas", !.popped = None]
    /\ UNCHANGED <<canvas, undo_stack, call, ret, budget_vars, race_rest>>

\* undo(): self.canvas = self.undo_stack[-1].copy(); return True
UndoCanvas ==
    /\ race.main_thread = "undo_canvas"
    /\ canvas' = Last(undo_stack)
    /\ race' = [race EXCEPT !.main_thread = "idle", !.ret = Returned(TRUE)]
    /\ UNCHANGED <<undo_stack, redo_stack, call, ret, budget_vars, race_rest>>

\* redo(): if self.redo_stack
RedoBegin ==
    /\ race.main_thread = "idle"
    /\ race.presses < MaxPress
    /\ race' = [race EXCEPT
                   !.presses = @ + 1,
                   !.main_thread = IF redo_stack # <<>> THEN "redo_pop"
                                   ELSE "idle",
                   !.ret = IF redo_stack # <<>> THEN None
                           ELSE Returned(FALSE)]
    /\ call' = "redo"
    /\ UNCHANGED <<canvas, undo_stack, redo_stack, ret, budget_vars,
                   race_rest>>

\* redo(): state = self.redo_stack.pop(); on a deque emptied in between
\* pop() raises IndexError and the callback ends
RedoPop ==
    /\ race.main_thread = "redo_pop"
    /\ IF redo_stack = <<>>
       THEN /\ race' = [race EXCEPT !.main_thread = "idle",
                                    !.ret = Returned("IndexError")]
            /\ UNCHANGED redo_stack
       ELSE /\ redo_stack' = Front(redo_stack)
            /\ race' = [race EXCEPT !.main_thread = "redo_append",
                                    !.popped = Some(Last(redo_stack))]
    /\ UNCHANGED <<canvas, undo_stack, call, ret, budget_vars, race_rest>>

\* redo(): self.undo_stack.append(state)
RedoAppend ==
    /\ race.main_thread = "redo_append"
    /\ undo_stack' = deque_append(undo_stack, Val(race.popped), MaxStates)
    /\ race' = [race EXCEPT !.main_thread = "redo_canvas"]
    /\ UNCHANGED <<canvas, redo_stack, call, ret, budget_vars, race_rest>>

\* redo(): self.canvas = state.copy(); return True
RedoCanvas ==
    /\ race.main_thread = "redo_canvas"
    /\ canvas' = Val(race.popped)
    /\ race' = [race EXCEPT !.main_thread = "idle", !.popped = None,
                            !.ret = Returned(TRUE)]
    /\ UNCHANGED <<undo_stack, redo_stack, call, ret, budget_vars, race_rest>>

NextRace ==
    \/ RacePaint
    \/ SaveCopy
    \/ SaveAppend
    \/ SaveClear
    \/ UndoBegin
    \/ UndoPop
    \/ UndoPush
    \/ UndoCanvas
    \/ RedoBegin
    \/ RedoPop
    \/ RedoAppend
    \/ RedoCanvas

SpecRace == Init /\ [][NextRace]_vars

---------------------------------------------------------------------------
(* AirSigGUI: start_camera(), stop_camera(), switch_camera() and the       *)
(* process_video threads they leave behind                                 *)

camera_rest == <<world_vars, app, recorder, race>>

\* start_camera(); opened: cv2.VideoCapture(...).isOpened()
start_camera(c, opened) ==
    IF c.camera_active THEN c
    ELSE IF ~opened THEN [c EXCEPT !.cap = "closed"]
    ELSE [c EXCEPT !.cap = "open",
                   !.camera_active = TRUE, !.running = TRUE,
                   !.threads = Append(@, "test"),
                   !.video_thread = Len(c.threads) + 1]

\* self.video_thread and self.video_thread.is_alive()
is_alive(c) ==
    /\ c.video_thread # 0
    /\ c.threads[c.video_thread] # "exited"

\* stop_camera() from the return of join() on: the capture is released
after_join(c) ==
    [c EXCEPT !.cap = "none", !.switching = FALSE,
              !.main_thread = IF c.switching THEN "sleep" ELSE "idle"]

\* stop_camera() up to the join; without a live thread it runs to its end
stop_camera(c) ==
    LET flagged == [c EXCEPT !.running = FALSE, !.camera_active = FALSE]
    IN  IF is_alive(flagged)
        THEN [flagged EXCEPT !.main_thread = "join"]
        ELSE after_join(flagged)

\* the Start Camera button
CameraStart ==
    /\ cam.main_thread = "idle"
    /\ cam.calls < MaxCalls
    /\ \E opened \in BOOLEAN :
          cam' = [start_camera(cam, opened) EXCEPT !.calls = @ + 1]
    /\ UNCHANGED camera_rest

\* the Stop Camera button, on_closing() and the other callers
CameraStop ==
    /\ cam.main_thread = "idle"
    /\ cam.calls < MaxCalls
    /\ cam' = [stop_camera(cam) EXCEPT !.calls = @ + 1]
    /\ UNCHANGED camera_rest

\* switch_camera() up to the join of its stop_camera(); several:
\* len(self.available_cameras) > 1
CameraSwitch ==
    /\ cam.main_thread = "idle"
    /\ cam.calls < MaxCalls
    /\ \E several \in BOOLEAN :
          cam' = IF cam.camera_active /\ several
                 THEN [stop_camera([cam EXCEPT !.switching = TRUE])
                          EXCEPT !.calls = @ + 1]
                 ELSE [cam EXCEPT !.calls = @ + 1]
    /\ UNCHANGED camera_rest

\* self.video_thread.join(timeout=2.0) returns because the thread ended
JoinReturns ==
    /\ cam.main_thread = "join"
    /\ ~is_alive(cam)
    /\ cam' = after_join(cam)
    /\ UNCHANGED camera_rest

\* self.video_thread.join(timeout=2.0) returns because 2 seconds passed
\* while the thread was in one pass of its loop
JoinTimesOut ==
    /\ cam.main_thread = "join"
    /\ is_alive(cam)
    /\ cam' = after_join(cam)
    /\ UNCHANGED camera_rest

\* switch_camera() after its stop_camera(): time.sleep(0.5), start_camera()
SwitchRestart ==
    /\ cam.main_thread = "sleep"
    /\ \E opened \in BOOLEAN :
          cam' = [start_camera(cam, opened) EXCEPT !.main_thread = "idle"]
    /\ UNCHANGED camera_rest

\* while self.running: of one process_video thread
LoopTest ==
    \E i \in DOMAIN cam.threads :
       /\ cam.threads[i] = "test"
       /\ cam.running => cam.loops < MaxLoops
       /\ cam' = IF cam.running
                 THEN [cam EXCEPT !.threads[i] = "frame", !.loops = @ + 1]
                 ELSE [cam EXCEPT !.threads[i] = "exited"]
       /\ UNCHANGED camera_rest

\* one pass of the loop's body, the except branch and its sleep included
LoopBody ==
    \E i \in DOMAIN cam.threads :
       /\ cam.threads[i] = "frame"
       /\ cam' = [cam EXCEPT !.threads[i] = "test"]
       /\ UNCHANGED camera_rest

NextCamera ==
    \/ CameraStart
    \/ CameraStop
    \/ CameraSwitch
    \/ JoinReturns
    \/ JoinTimesOut
    \/ SwitchRestart
    \/ LoopTest
    \/ LoopBody

SpecCamera == Init /\ [][NextCamera]_vars

---------------------------------------------------------------------------
(* Properties *)

\* C1: after N strokes, each made as save_state() and then draw_line or
\* erase calls, N undo() calls followed by N redo() calls leave the canvas
\* equal to the canvas before the first undo(); for N = 1 the undo() gives
\* the all-white canvas and the redo() gives the stroke back.
C1_UndoRedoRoundTrip ==
    /\ (pc = "undoing" /\ strokes = 1 /\ undos = 1) => canvas = BlankCanvas
    /\ (pc = "redoing" /\ redos = strokes) => canvas = final_canvas

\* C2: when every stroke starts with save_state(), a single undo() restores
\* the canvas content saved by the most recent save_state().
C2_UndoRevertsLastStroke ==
    (pc = "undoing" /\ undos = 1) => canvas = saved_canvas

\* C3: after clear() the canvas is all background, and the next undo()
\* succeeds and restores the content the canvas had before the clear().
C3_ClearIsUndoable ==
    /\ pc = "cleared" => canvas = BlankCanvas
    /\ pc = "clear_undone" =>
          (ret = Returned(TRUE) /\ canvas = cleared_canvas)

\* C4: after any sequence of engine calls the undo stack holds at least one
\* snapshot.
C4_UndoStackNeverEmpty == Len(undo_stack) >= 1

\* an undo() has popped the stack down to its single remaining snapshot
C4_Witness ==
    call = "undo" /\ ret = Returned(TRUE) /\ Len(undo_stack) = 1

\* C5: undo() on an undo stack of exactly one snapshot returns False and
\* changes neither the canvas nor either stack.
C5_UndoAtFloorFails ==
    [][(call' = "undo" /\ Len(undo_stack) = 1) =>
          /\ ret' = Returned(FALSE)
          /\ canvas' = canvas
          /\ undo_stack' = undo_stack
          /\ redo_stack' = redo_stack]_vars

\* a failed undo() on a canvas that differs from the only snapshot, with a
\* snapshot waiting on the redo stack
C5_Witness ==
    /\ call = "undo"
    /\ ret = Returned(FALSE)
    /\ Len(undo_stack) = 1
    /\ canvas # undo_stack[1]
    /\ redo_stack # <<>>

\* C6: every save_state(), also the one inside clear(), leaves the redo
\* stack empty; painting does not refill it; and redo() on an empty redo
\* stack returns False and does not change the canvas.
C6_SaveInvalidatesRedo ==
    [][/\ call' \in {"save_state", "clear"} => redo_stack' = <<>>
       /\ call' \in {"draw_line", "erase"} => redo_stack' = redo_stack
       /\ (call' = "redo" /\ redo_stack = <<>>) =>
             (ret' = Returned(FALSE) /\ canvas' = canvas)]_vars

\* a redo() that failed after a save_state() and a paint on top of it
C6_Witness ==
    /\ call = "redo"
    /\ ret = Returned(FALSE)
    /\ Len(undo_stack) >= 2
    /\ canvas # Last(undo_stack)

\* C7: neither stack ever holds more than 20 snapshots, and save_state() on
\* a full undo stack drops the oldest snapshot and keeps the other 19, in
\* order, below the new one.
C7_StacksBounded ==
    [][/\ Len(undo_stack') <= MaxStates
       /\ Len(redo_stack') <= MaxStates
       /\ (call' = "save_state" /\ Len(undo_stack) = MaxStates) =>
             undo_stack' = Append(Tail(undo_stack), canvas)]_vars

\* a save_state() on a full stack after which no blank snapshot of the
\* initial ones is left at the bottom
C7_Witness ==
    /\ call = "save_state"
    /\ Len(undo_stack) = MaxStates
    /\ undo_stack[1] # BlankCanvas

\* C8: redo() on an empty redo stack returns False and changes nothing;
\* otherwise it moves the top snapshot of the redo stack onto the undo
\* stack, makes it the canvas and returns True.
C8_RedoMovesTop ==
    [][call' = "redo" =>
          IF redo_stack = <<>>
          THEN /\ ret' = Returned(FALSE)
               /\ canvas' = canvas
               /\ undo_stack' = undo_stack
               /\ redo_stack' = redo_stack
          ELSE /\ ret' = Returned(TRUE)
               /\ redo_stack' = Front(redo_stack)
               /\ undo_stack' = Append(undo_stack, Last(redo_stack))
               /\ canvas' = Last(redo_stack)]_vars

\* a successful redo() of a painted snapshot onto an undo stack one short
\* of its capacity
C8_Witness ==
    /\ call = "redo"
    /\ ret = Returned(TRUE)
    /\ Len(undo_stack) = MaxStates
    /\ canvas # BlankCanvas
    /\ canvas = Last(undo_stack)

\* C9: in the composited frame every pixel whose canvas pixel is the
\* background colour shows the input frame, and every other pixel shows
\* the canvas.
C9_OverlayTransparency ==
    call = "overlay_on_frame" =>
        \A p \in Pixels :
            IF canvas[p] = White
            THEN frame_out[p] = frame_in[p]
            ELSE frame_out[p] = canvas[p]

\* the label of the first rule that matches, in the order fist, palm_open,
\* erase, pinch, draw, navigate, else none
FirstMatch(f, pinch) ==
    LET rules == << <<f = <<0, 0, 0, 0, 0>>, "fist">>,
                    <<f = <<1, 1, 1, 1, 1>>, "palm_open">>,
                    <<f = <<0, 1, 1, 1, 1>>, "erase">>,
                    <<pinch, "pinch">>,
                    <<f[2] = 1 /\ f[3] = 0 /\ f[4] = 0 /\ f[5] = 0, "draw">>,
                    <<f[2] = 1 /\ f[3] = 1 /\ f[4] = 0 /\ f[5] = 0,
                      "navigate">> >>
        matching == {i \in 1 .. Len(rules) : rules[i][1]}
    IN  IF matching = {} THEN "none"
        ELSE rules[CHOOSE i \in matching : \A k \in matching : i <= k][2]

\* C10: the label recognize() pushes on the history for a 21-landmark frame
\* is the label of the first matching rule; a hand with no finger extended
\* is a fist and one with all five extended is palm_open, whatever the
\* pinch distance.
C10_RawClassification ==
    Len(landmarks) >= NumLandmarks =>
        LET f == _get_finger_states(landmarks)
            raw == Last(gesture_history)
        IN  /\ raw = FirstMatch(f, IsPinch(landmarks))
            /\ f = <<0, 0, 0, 0, 0>> => raw = "fist"
            /\ f = <<1, 1, 1, 1, 1>> => raw = "palm_open"

\* a hand whose four fingers are up and whose thumb is down, within pinch
\* distance: erase comes before pinch
C10_Witness ==
    /\ Len(landmarks) >= NumLandmarks
    /\ _get_finger_states(landmarks) = <<0, 1, 1, 1, 1>>
    /\ IsPinch(landmarks)
    /\ Last(gesture_history) = "erase"

\* the raw labels of the lists of 21 landmarks among those fed so far
FedRawLabels ==
    LET full == SelectSeq(feed, LAMBDA f : Len(f) >= 21)
    IN  [i \in 1 .. Len(full) |-> RawGesture(full[i])]

\* C11: after n recognize() calls with lists of 21 landmarks the history
\* holds the raw labels of the last min(n, 5) of them, in order, and the
\* label a call with such a list returns is one whose count in that
\* history is maximal.
C11_HistoryAndVote ==
    LET n == Len(FedRawLabels)
        k == IF n < 5 THEN n ELSE 5
    IN  /\ gesture_history = SubSeq(FedRawLabels, n - k + 1, n)
        /\ (feed # <<>> /\ Len(Last(feed)) >= 21) =>
              /\ rec_ret[1] \in Range(gesture_history)
              /\ \A g \in Range(gesture_history) :
                    Count(gesture_history, rec_ret[1])
                        >= Count(gesture_history, g)

\* six lists of 21 landmarks went in, the first label has left the
\* history, and the vote returned another label than the newest raw one
C11_Witness ==
    /\ Len(FedRawLabels) = 6
    /\ Len(gesture_history) = 5
    /\ FedRawLabels[1] \notin Range(gesture_history)
    /\ Len(Last(feed)) >= 21
    /\ rec_ret[1] # Last(gesture_history)

\* C12: two recognisers fed the same sequence of landmark lists return the
\* same sequence of labels, also when labels tie for the maximal count.
C12_SameLabels ==
    \A i \in 1 .. Len(out2) : out2[i] = out1[i]

\* C13: recognize() with an empty list or with fewer than 21 landmarks
\* returns ("none", 0.0) and leaves the history and current_gesture as
\* they were.
C13_ShortListsFailSoft ==
    [][(frames_seen' # frames_seen /\ Len(landmarks') < 21) =>
          /\ rec_ret' = <<"none", 0>>
          /\ gesture_history' = gesture_history
          /\ current_gesture' = current_gesture]_vars

\* a call with 20 landmarks on a recogniser that holds a label
C13_Witness ==
    /\ Len(landmarks) = 20
    /\ rec_ret = <<"none", 0>>
    /\ gesture_history # <<>>
    /\ current_gesture # "none"

\* C14: while a single hand's label stays "pinch" for up to 10 consecutive
\* frames, the colour index has advanced exactly once since the first of
\* them: on the first frame, and on no later one
C14_PinchAdvancesOnce ==
    pinch_run \in 1 .. MaxHold => run_advances = 1

\* C15: smooth(None) returns None and leaves both filters, the point
\* history and the last stable point as they were.
C15_SmoothNoneIsNoOp ==
    [][(sm_calls' # sm_calls /\ sm_arg' = None) =>
          /\ sm_ret' = None
          /\ smoothers'[0].filter_x = smoothers[0].filter_x
          /\ smoothers'[0].filter_y = smoothers[0].filter_y
          /\ smoothers'[0].point_history = smoothers[0].point_history
          /\ smoothers'[0].last_stable_point
                = smoothers[0].last_stable_point]_vars

\* smooth(None) on a smoother whose filters, history and stable point
\* are all set
C15_Witness ==
    /\ sm_call = "smooth"
    /\ sm_arg = None
    /\ sm_ret = None
    /\ smoothers[0].last_stable_point # None
    /\ smoothers[0].point_history # <<>>
    /\ smoothers[0].filter_x.x_prev # None

\* C16: smooth() of a point that differs from the stored stable point by
\* less than jitter_threshold on both axes returns that stable point and
\* keeps it; and when every smooth() call so far got the same point, every
\* call returned what the first call returned.
C16_JitterGate ==
    [][/\ (/\ sm_calls' # sm_calls
           /\ sm_arg' # None
           /\ smoothers[0].last_stable_point # None
           /\ Abs(sm_arg'[1] - smoothers[0].last_stable_point[1])
                 < smoothers[0].jitter_threshold
           /\ Abs(sm_arg'[2] - smoothers[0].last_stable_point[2])
                 < smoothers[0].jitter_threshold) =>
             /\ sm_ret' = smoothers[0].last_stable_point
             /\ smoothers'[0].last_stable_point
                   = smoothers[0].last_stable_point
       /\ (/\ sm_log' # <<>>
           /\ sm_log'[1][1] # None
           /\ \A i \in 1 .. Len(sm_log') : sm_log'[i][1] = sm_log'[1][1]) =>
             \A i \in 1 .. Len(sm_log') : sm_log'[i][2] = sm_log'[1][2]]_vars

\* a point one or two pixels off the stable point came back as the stable
\* point
C16_Witness ==
    /\ sm_call = "smooth"
    /\ sm_arg # None
    /\ sm_ret = smoothers[0].last_stable_point
    /\ sm_ret # sm_arg
    /\ Len(sm_log) >= 2

\* C17: after reset() both filters are uninitialised, the history is
\* empty and there is no last stable point.
C17_ResetDiscardsState ==
    sm_call = "reset" =>
        /\ smoothers[0].filter_x.x_prev = None
        /\ smoothers[0].filter_y.x_prev = None
        /\ smoothers[0].point_history = <<>>
        /\ smoothers[0].last_stable_point = None

\* C20 as claimed: on every call after the first the filter computes with
\* dt = max(t - t_prev, 0.001).
C20_DtClamped ==
    [][(euro_calls' # euro_calls /\ euro_calls >= 1) =>
          LET d == Val(euro'.t_prev) - Val(euro.t_prev)
          IN  euro_dt' = Some(IF d < EpsilonTicks THEN EpsilonTicks
                              ELSE d)]_vars

\* the last draw_line call looked at had points farther apart than
\* 2 x thickness
FarApart ==
    /\ line_args # None
    /\ Dist2(line_args[1], line_args[2]) > 4 * line_args[3] * line_args[3]

\* the pixels of the segment pt1-pt2: those within half a pixel of it
SegmentPixels(pt1, pt2) == {p \in LinePoints : OnLine(p, pt1, pt2, 1)}

\* no pixel of the segment is left unpainted, and the first circle is at
\* the first point
NoGap ==
    LET pt1 == line_args[1]
        pt2 == line_args[2]
    IN  /\ Centres(pt1, pt2, line_args[3])[1] = pt1
        /\ \A p \in SegmentPixels(pt1, pt2) : line_canvas[p] = Red

\* C22 (as stated): draw_line with points farther apart than 2 x thickness
\* leaves no pixel of the segment unpainted, the first circle is at the
\* first point and the circles are spaced at most thickness / 2 apart
\* along the segment (the spacing is dist / num_points).
C22_CirclesHalfThicknessApart ==
    FarApart =>
        LET d2 == Dist2(line_args[1], line_args[2])
            n  == NumPoints(d2, line_args[3])
        IN  /\ NoGap
            /\ 4 * d2 <= n * n * line_args[3] * line_args[3]

\* C22 (amended): draw_line with points farther apart than 2 x thickness
\* leaves no pixel of the segment unpainted: the first circle is at the
\* first point, the circles are spaced dist / num_points apart, which is
\* at least thickness / 2 and less than thickness, and the line is drawn
\* over the whole segment.
C22_NoGapBetweenPoints ==
    FarApart =>
        LET d2 == Dist2(line_args[1], line_args[2])
            n  == NumPoints(d2, line_args[3])
        IN  /\ NoGap
            /\ 4 * d2 >= n * n * line_args[3] * line_args[3]
            /\ d2 < n * n * line_args[3] * line_args[3]

\* a slanted line of thickness 2 whose circles are more than half the
\* thickness apart
C22_Witness ==
    /\ FarApart
    /\ line_args[3] = 2
    /\ line_args[1][1] # line_args[2][1]
    /\ line_args[1][2] # line_args[2][2]
    /\ LET d2 == Dist2(line_args[1], line_args[2])
       IN  4 * d2 > NumPoints(d2, 2) * NumPoints(d2, 2) * 4

\* v lies between a and b, give or take slack
Between(v, a, b, slack) ==
    /\ v >= (IF a < b THEN a ELSE b) - slack
    /\ v <= (IF a < b THEN b ELSE a) + slack

\* C21 (as stated): on a step input every output lies between the
\* previous output and the constant b.
C21_StepMonotone ==
    step_prev # None =>
        Between(Val(euro_out), Val(step_prev), Val(step_input), 0)

\* C21 (amended): on a step input every output lies between the previous
\* output and the constant b up to the rounding of the two products of
\* the smoothing formula, half a unit in the last place each.
C21_StepWithinRounding ==
    step_prev # None =>
        Between(Val(euro_out), Val(step_prev), Val(step_input), 1)

\* the third call of a step: the output has left the previous output and
\* has not reached b
C21_Witness ==
    /\ euro_calls = 3
    /\ step_prev # None
    /\ Val(euro_out) # Val(step_prev)
    /\ Val(euro_out) # Val(step_input)
    /\ Between(Val(euro_out), Val(step_prev), Val(step_input), 0)

\* C20: on every call after the first the filter computes with
\* dt = t - t_prev when that difference is positive, and with 0.001 when
\* it is zero or negative.
C20_DtGuard ==
    [][(euro_calls' # euro_calls /\ euro_calls >= 1) =>
          LET d == Val(euro'.t_prev) - Val(euro.t_prev)
          IN  euro_dt' = Some(IF d <= 0 THEN EpsilonTicks ELSE d)]_vars

\* a call half a millisecond after the previous one computed with that
\* half millisecond
C20_Witness ==
    /\ euro_calls >= 2
    /\ euro_dt = Some(1)
    /\ 1 < EpsilonTicks

\* C19: draw_line and erase leave the undo and the redo stack as they
\* are, and with a required point absent (an endpoint of draw_line, the
\* center of erase) they leave the canvas as it is too.
C19_PaintTakesNoSnapshot ==
    [][call' \in {"draw_line", "erase"} =>
          /\ undo_stack' = undo_stack
          /\ redo_stack' = redo_stack
          /\ pt_missing' => canvas' = canvas]_vars

\* a draw_line without one of its points on a painted canvas, with
\* snapshots on both stacks
C19_Witness ==
    /\ call = "draw_line"
    /\ pt_missing
    /\ canvas # BlankCanvas
    /\ Len(undo_stack) >= 2
    /\ redo_stack # <<>>

\* the pixel contents of a sequence of buffers
Contents(h, refs) == [i \in 1 .. Len(refs) |-> h[refs[i]]]

\* C18: writing into a buffer get_canvas() returned changes neither the
\* engine's canvas nor a snapshot on either stack, and no engine call
\* changes a buffer get_canvas() returned earlier.
C18_GetCanvasIsACopy ==
    [][/\ call' = "caller_write" =>
             /\ heap'[canvas_ref'] = heap[canvas_ref]
             /\ Contents(heap', undo_refs') = Contents(heap, undo_refs)
             /\ Contents(heap', redo_refs') = Contents(heap, redo_refs)
       /\ call' \in {"save_state", "undo", "redo", "clear", "draw_line",
                     "erase", "get_canvas"} =>
             \A i \in 1 .. Len(held) : heap'[held'[i]] = heap[held[i]]]_vars

\* the caller has written into the buffer it got, and the engine has
\* painted its canvas after that: each shows its own pixel
C18_Witness ==
    /\ call = "draw_line"
    /\ held # <<>>
    /\ heap[held[1]][<<0, 0>>] = Blue
    /\ heap[canvas_ref][<<0, 0>>] = Red
    /\ \A i \in 1 .. Len(undo_refs) : heap[undo_refs[i]][<<0, 0>>] # Blue

\* the engine's canvas and stacks, as values, are the contents of the
\* buffers they refer to
RefAbstraction ==
    /\ canvas = heap[canvas_ref]
    /\ undo_stack = Contents(heap, undo_refs)
    /\ redo_stack = Contents(heap, redo_refs)

\* C23: the video thread stores current_frame and the main thread copies it
\* out only while holding thread_lock, never both at once, and neither
\* holds the lock while it processes or renders a frame; the frame copied
\* out is a frame the video thread stored.
C23_FrameHandoffUnderLock ==
    /\ app.video_thread = "store" => app.thread_lock = "video"
    /\ app.main_thread = "display_copy" => app.thread_lock = "main"
    /\ ~(app.video_thread = "store" /\ app.main_thread = "display_copy")
    /\ app.video_thread \in {"check", "read", "process", "record", "lock"}
          => app.thread_lock # "video"
    /\ app.main_thread \in {"idle", "display_lock", "display_render", "join"}
          => app.thread_lock # "main"
    /\ app.display_frame # None =>
          Val(app.display_frame) \in 1 .. app.frames_read

C23_Witness ==
    /\ app.main_thread = "display_copy"
    /\ app.video_thread = "lock"
    /\ app.current_frame = Some(1)
    /\ app.frame = Some(2)

\* C24: while the video thread is alive, no other thread calls a method of
\* the engine that changes the canvas or the stacks.
C24_OnlyVideoThreadWrites == app.cross_writes = 0

LoadLeftAlone ==
    /\ canvas = load_pre.canvas
    /\ gui.brush_color = load_pre.gui.brush_color
    /\ gui.brush_size = load_pre.gui.brush_size
    /\ gui.brush_opacity = load_pre.gui.brush_opacity
    /\ gui.eraser_size = load_pre.gui.eraser_size

\* C26: load_project takes the loaded canvas only if it is a 3-dimensional
\* array with the height, width and channel count of the engine's canvas;
\* anything else is reported as a failure and leaves the canvas, the brush
\* colour, size and opacity and the eraser size as they were.
C26_LoadChecksShape ==
    load_ret # None =>
       /\ load_ret = Returned("showinfo") =>
             /\ load_arg.canvas.ndarray
             /\ load_arg.canvas.shape = ShapeOf(load_pre.canvas)
       /\ load_ret = Returned("showerror") => LoadLeftAlone

\* C27: recorded_frames never holds more than 18000 frames: a frame is
\* appended only while the list is shorter than that, and a frame that
\* arrives with the list full is not stored and schedules toggle_recording.
C27_RecordingCapped ==
    [][/\ recorder'.recorded_frames <= RecordingCap
       /\ recorder'.recorded_frames > recorder.recorded_frames
             => recorder.recorded_frames < RecordingCap
       /\ (/\ recorder'.last_op = "frame"
           /\ recorder.recording
           /\ ~recorder.recording_paused
           /\ recorder.recorded_frames = RecordingCap)
             => /\ recorder'.recorded_frames = RecordingCap
                /\ recorder'.after_queue = recorder.after_queue + 1]_vars

C27_Witness ==
    /\ recorder.recording
    /\ recorder.recorded_frames = RecordingCap
    /\ recorder.after_queue = 1
    /\ recorder.last_op = "frame"

\* C28: with one hand in the frame, the dispatcher calls save_state() on a
\* draw or erase frame exactly when prev_draw_point is absent, which is the
\* first frame of a run of consecutive draw or erase frames: once per run.
C28_OneSavePerStroke ==
    watch.stroke_run >= 1 =>
       /\ watch.stroke_saves = 1
       /\ Saves(watch.trace[1].calls)
             = (IF watch.prev_before = None THEN 1 ELSE 0)
       /\ (watch.prev_before = None) <=> (watch.stroke_run = 1)

C28_Witness ==
    /\ watch.stroke_run = 3
    /\ watch.stroke_saves = 1
    /\ watch.trace[1].gesture = "erase"
    /\ Saves(watch.trace[1].calls) = 0

\* C29: with two hands in the frame, a first hand that stays labelled draw
\* gets save_state() on the first of these frames only and draw_line from
\* its own previous point on every later one, and no draw_line starts at a
\* point another hand left behind.
C29_StrokePerHand ==
    /\ watch.draw_run = 1 =>
          watch.trace[1].calls = <<EngineCall("save_state", None, None)>>
    /\ watch.draw_run > 1 =>
          /\ Len(watch.trace[1].calls) = 1
          /\ watch.trace[1].calls[1].name = "draw_line"
    /\ \A i \in DOMAIN watch.trace :
          \A k \in DOMAIN watch.trace[i].calls :
             watch.trace[i].calls[k].name = "draw_line" =>
                /\ i \in DOMAIN watch.tips_before
                /\ watch.trace[i].calls[k].pt1 = watch.tips_before[i]

\* C30: while the first of two hands stays labelled pinch and the second
\* shows something else, the colour index advances once, on the first frame.
C30_PinchPerHand ==
    watch.hold_run >= 1 => watch.hold_advances = 1

\* C31: every frame labelled pinch that follows a frame not labelled pinch
\* (another label, no hand, or no frame at all) advances the colour index
\* by exactly one modulo the palette length; so pinch, frames with no
\* hand, pinch advances it twice
C31_NewPinchAdvances ==
    [][(pinch_run = 0 /\ pinch_run' = 1) =>
          gui'.current_color_index =
              (gui.current_color_index + 1) % Len(color_list)]_vars

\* C32: a frame with no hand, or with one hand labelled palm_open or none,
\* leaves prev_draw_point None and leaves the canvas, the undo stack and
\* the redo stack as they were
C32_PauseFramesPaintNothing ==
    [][(/\ watch'.frames = watch.frames + 1
        /\ \/ hands_data' = <<>>
           \/ /\ Len(hands_data') = 1
              /\ watch'.trace[1].gesture \in {"palm_open", "none"})
       => /\ gui'.prev_draw_point = None
          /\ canvas' = canvas
          /\ undo_stack' = undo_stack
          /\ redo_stack' = redo_stack]_vars

\* a stroke was begun and undone, and the frame after it was labelled
\* palm_open: it found a previous point and a redo snapshot
C32_Witness ==
    /\ watch.trace # <<>>
    /\ watch.trace[1].gesture = "palm_open"
    /\ watch.prev_before # None
    /\ gui.prev_draw_point = None
    /\ redo_stack # <<>>
    /\ Len(undo_stack) >= 1

\* the index tip of the first hand of the frame just dispatched
FirstTip(hands) ==
    <<LmX(LM(hands[1].landmarks, 8)), LmY(LM(hands[1].landmarks, 8))>>

\* the canvas c with the primitive of shape_mode painted between start and
\* point
WithShape(c, g, point) ==
    [p \in DOMAIN c |->
        IF ShapePainted(p, Val(g.shape_mode), Val(g.shape_start_point),
                        point, g.brush_size)
        THEN g.brush_color ELSE c[p]]

\* C33: the shape tool is a two-state machine. In a frame whose first hand
\* is labelled navigate: if a shape tool was picked since the last such
\* frame, the frame only stores its point as the start point and leaves
\* the canvas; otherwise, with a tool picked, it paints the tool's
\* primitive from the start point to its point and clears start point and
\* shape mode; with no tool picked it leaves the canvas
C33_ShapeToolTwoStates ==
    [][(/\ watch'.frames = watch.frames + 1
        /\ hands_data' # <<>>
        /\ watch'.trace[1].gesture = "navigate")
       => LET point == FirstTip(hands_data')
          IN  /\ watch.fresh =>
                    /\ canvas' = canvas
                    /\ gui'.shape_start_point = Some(point)
                    /\ gui'.shape_mode = gui.shape_mode
              /\ (~watch.fresh /\ gui.shape_mode # None) =>
                    /\ gui.shape_start_point # None
                    /\ canvas' = WithShape(canvas, gui, point)
                    /\ gui'.shape_start_point = None
                    /\ gui'.shape_mode = None
              /\ gui.shape_mode = None => canvas' = canvas]_vars

\* C39: when a frame has painted a shape, the snapshot on top of the undo
\* stack is the canvas as it was immediately before that frame, and undo()
\* brings that canvas back
C39_ShapeIsUndoable ==
    (/\ watch.trace # <<>>
     /\ watch.trace[1].gesture = "navigate"
     /\ watch.trace[1].calls # <<>>)
    => /\ Last(undo_stack) = Val(watch.canvas_before)
       /\ undo(Eng).canvas = Val(watch.canvas_before)

\* C34: the undo stack and the redo stack together never hold more than 20
\* snapshots, and an undo() that succeeds puts the popped snapshot on the
\* redo stack without dropping any snapshot from it
C34_StacksShareTheBound ==
    [][/\ Len(undo_stack') + Len(redo_stack') <= MaxStates
       /\ (call' = "undo" /\ ret' = Returned(TRUE)) =>
             redo_stack' = Append(redo_stack, Last(undo_stack))]_vars

\* an undo() that filled the two stacks to 20 snapshots, 19 of them on the
\* redo stack
C34_Witness ==
    /\ call = "undo"
    /\ ret = Returned(TRUE)
    /\ Len(redo_stack) = MaxStates - 1
    /\ Len(undo_stack) = 1

\* the sequence s read from its last element to its first
Reverse(s) == [i \in 1 .. Len(s) |-> s[Len(s) + 1 - i]]

\* the snapshots on the two stacks as one line of history: the undo stack
\* from the bottom, then the redo stack from the top
Timeline(h, undo_s, redo_s) == Contents(h, undo_s) \o Reverse(Contents(h, redo_s))

\* C35: the canvas is never the buffer of a stored snapshot, and no call
\* changes the pixels of a stored snapshot: painting calls (draw_line,
\* erase, the shape tool) and overlay_on_frame leave the contents of both
\* stacks as they were, undo and redo only move snapshots between the
\* stacks, save_state and clear only push a copy of the canvas
C35_SnapshotsAreNeverPainted ==
    [][/\ canvas_ref' \notin Range(undo_refs') \cup Range(redo_refs')
       /\ call' \in {"draw_line", "erase", "shape", "overlay_on_frame"} =>
             /\ Contents(heap', undo_refs') = Contents(heap, undo_refs)
             /\ Contents(heap', redo_refs') = Contents(heap, redo_refs)
       /\ call' \in {"undo", "redo"} =>
             Timeline(heap', undo_refs', redo_refs')
                = Timeline(heap, undo_refs, redo_refs)
       /\ call' \in {"save_state", "clear"} =>
             Contents(heap', undo_refs')
                = deque_append(Contents(heap, undo_refs), heap[canvas_ref],
                               MaxStates)]_vars

\* redo() has brought a painted snapshot back: the canvas shows its pixels
\* and is a buffer of its own
C35_Witness ==
    /\ call = "redo"
    /\ ret = Returned(TRUE)
    /\ heap[canvas_ref] = heap[Last(undo_refs)]
    /\ heap[canvas_ref] # BlankCanvas
    /\ canvas_ref # Last(undo_refs)

\* C36: with undo() and redo() of the main thread cut into by save_state()
\* of the video thread, once a save_state() has completed the redo stack
\* is empty, and it stays empty until the next undo() begins
C36_RedoInvalidatedUnderInterleaving ==
    race.sealed => redo_stack = <<>>

\* C37: the label recognize() returns for hand 0 is the same in two runs
\* in which hand 0 shows the same in every frame, whatever the other hand
\* shows
C37_LabelIgnoresOtherHand ==
    out1 = out2

\* the process_video threads that are inside a pass of the frame loop
InFrameLoop == {i \in DOMAIN cam.threads : cam.threads[i] = "frame"}

\* C38: across any sequence of start_camera, stop_camera and switch_camera
\* calls at most one process_video thread is inside the frame loop, also
\* when stop_camera's join returned on its timeout
C38_OneProducerInLoop == Cardinality(InFrameLoop) <= 1

\* C40: reset() keeps the configuration chosen at construction: the two
\* filters have the min_cutoff and beta of the smoother's stabilization
\* level after it, and window_size and jitter_threshold are unchanged
C40_ResetKeepsConfiguration ==
    [][sm_call' = "reset" =>
          LET s == smoothers[0]
              t == smoothers'[0]
              chosen == PointSmoother_init(s.jitter_threshold,
                                           s.stabilization)
          IN  /\ t.filter_x.min_cutoff = chosen.filter_x.min_cutoff
              /\ t.filter_x.beta = chosen.filter_x.beta
              /\ t.filter_y.min_cutoff = chosen.filter_y.min_cutoff
              /\ t.filter_y.beta = chosen.filter_y.beta
              /\ t.window_size = s.window_size
              /\ t.jitter_threshold = s.jitter_threshold]_vars

====
